---- MODULE Spec2Model ----
(***************************************************************************)
(* Model of the dialect-aware SQL query builder "qb"                       *)
(* (pkg/kite/datasource/sql/qb).                                           *)
(*                                                                         *)
(* Representation.                                                         *)
(*  - A Go string supplied by the caller (map key, field, raw SQL) is a    *)
(*    sequence of one-character strings, so that trimming, splitting at    *)
(*    the first space, case folding and byte-wise sorting are computed.    *)
(*  - Generated SQL is a sequence of chunks (strings).  Literals of the    *)
(*    code are whole chunks, except that every '?' byte is a chunk of its  *)
(*    own; no chunk is the empty string, so the empty Go string is <<>>.   *)
(*  - A Go value of dynamic type is a record [kind, val].                  *)
(*  - A Go map is a function; the order in which `range` visits it is not  *)
(*    specified, so every builder takes the visiting order `ord` (a        *)
(*    permutation) as an extra input chosen nondeterministically.          *)
(*  - nil and empty slices are both <<>> (the code only tests len or       *)
(*    appends them).                                                       *)
(***************************************************************************)
EXTENDS Integers, Sequences, FiniteSets, TLC

VARIABLES
  alias,        \* the dialect string given to New, FromDB and the *WithDialect forms
  dialect,      \* Builder.dialect of the builder the calls are made on
  family,       \* which inputs were supplied: "where", "insert", "named", "node",
                \* "dialect", "json", "concurrent"
  where,        \* the where map given to BuildSelect/BuildUpdate/BuildDelete
  selectField,  \* the field list given to BuildSelect
  update,       \* the update map given to BuildUpdate, BuildInsertOnDuplicate, BuildUpsert
  rows,         \* the row maps given to the INSERT family
  conflict,     \* the conflict columns given to BuildUpsert
  tmpl,         \* the template given to NamedQuery
  data,         \* the value map given to NamedQuery
  node,         \* the condition node Build is called on
  pairs,        \* the paths and values given to JsonSet
  threads,      \* the goroutines calling concurrently: where each is in its call
  again,        \* whether the caller repeats the call on the same inputs
  calls,        \* how many times the operation has been called on these inputs
  op,           \* the operation called
  res,          \* the (sql, args, error) returned by the last call
  prev          \* the (sql, args, error) returned by the call before it

vars == << alias, dialect, family, where, selectField, update, rows, conflict, tmpl,
           data, node, pairs, threads, again, calls, op, res, prev >>

(***************************************************************************)
(* Bounds of the model.                                                    *)
(***************************************************************************)
\* largest number of keys in one caller-supplied where map
MaxKeys == 2

(***************************************************************************)
(* Bytes and strings.                                                      *)
(***************************************************************************)
\* the byte 0x60 (backtick), which cannot be written inside a string here
BQ == "<bq>"

\* the printable ASCII bytes (without the double quote and the backslash) in
\* increasing byte value, which is the order of Go's < on strings
Alphabet ==
  <<
     " ", "!", "#", "$", "%", "&", "'", "(", ")", "*", "+",
     ",", "-", ".", "/", "0", "1", "2", "3", "4", "5", "6", "7",
     "8", "9", ":", ";", "<", "=", ">", "?", "@", "A", "B", "C",
     "D", "E", "F", "G", "H", "I", "J", "K", "L", "M", "N", "O",
     "P", "Q", "R", "S", "T", "U", "V", "W", "X", "Y", "Z", "[",
     "]", "^", "_", BQ, "a", "b", "c", "d", "e", "f", "g",
     "h", "i", "j", "k", "l", "m", "n", "o", "p", "q", "r", "s",
     "t", "u", "v", "w", "x", "y", "z", "{", "|", "}", "~" >>

CharRank == [c \in {Alphabet[i] : i \in 1..Len(Alphabet)} |->
               CHOOSE i \in 1..Len(Alphabet) : Alphabet[i] = c]

\* s < t for Go strings
RECURSIVE StrLess(_, _)
StrLess(s, t) ==
  IF s = <<>> THEN t # <<>>
  ELSE IF t = <<>> THEN FALSE
  ELSE IF s[1] = t[1] THEN StrLess(Tail(s), Tail(t))
  ELSE CharRank[s[1]] < CharRank[t[1]]

RECURSIVE InsertSorted(_, _)
InsertSorted(x, sorted) ==
  IF sorted = <<>> THEN <<x>>
  ELSE IF StrLess(x, sorted[1]) THEN <<x>> \o sorted
  ELSE <<sorted[1]>> \o InsertSorted(x, Tail(sorted))

\* defaultSortAlgorithm that leaves the slice as it came
unsortedKeys(s) == s

\* sort.Strings
RECURSIVE defaultSortAlgorithm(_)
defaultSortAlgorithm(s) ==
  IF s = <<>> THEN <<>>
  ELSE InsertSorted(s[1], defaultSortAlgorithm(Tail(s)))

\* strings.ToLower on the letters of the alphabet
UpperLetters ==
  << "A", "B", "C", "D", "E", "F", "G", "H", "I", "J", "K", "L",
     "M", "N", "O", "P", "Q", "R", "S", "T", "U", "V", "W", "X", "Y", "Z" >>
LowerLetters ==
  << "a", "b", "c", "d", "e", "f", "g", "h", "i", "j", "k", "l",
     "m", "n", "o", "p", "q", "r", "s", "t", "u", "v", "w", "x", "y", "z" >>

LowerChar(c) ==
  IF \E i \in 1..Len(UpperLetters) : UpperLetters[i] = c
  THEN LowerLetters[CHOOSE i \in 1..Len(UpperLetters) : UpperLetters[i] = c]
  ELSE c

ToLower(s) == [i \in 1..Len(s) |-> LowerChar(s[i])]

\* strings.IndexByte(s, c), 1-based; 0 when absent (Go: -1)
IndexByte(s, c) ==
  IF \E i \in 1..Len(s) : s[i] = c
  THEN CHOOSE i \in 1..Len(s) : s[i] = c /\ \A j \in 1..(i-1) : s[j] # c
  ELSE 0

RECURSIVE TrimLeft(_, _)
TrimLeft(s, c) ==
  IF s # <<>> /\ s[1] = c THEN TrimLeft(Tail(s), c) ELSE s

RECURSIVE TrimRight(_, _)
TrimRight(s, c) ==
  IF s # <<>> /\ s[Len(s)] = c THEN TrimRight(SubSeq(s, 1, Len(s)-1), c) ELSE s

\* strings.Trim(s, " ")
Trim(s, c) == TrimRight(TrimLeft(s, c), c)

\* strings.HasPrefix
HasPrefix(s, p) == Len(s) >= Len(p) /\ SubSeq(s, 1, Len(p)) = p

\* strings.Join of a list of texts
RECURSIVE Join(_, _)
Join(list, sep) ==
  IF list = <<>> THEN <<>>
  ELSE IF Len(list) = 1 THEN list[1]
  ELSE list[1] \o sep \o Join(Tail(list), sep)

\* concatenation of a list of lists
RECURSIVE Flatten(_)
Flatten(list) ==
  IF list = <<>> THEN <<>> ELSE list[1] \o Flatten(Tail(list))

(***************************************************************************)
(* Map iteration.                                                          *)
(***************************************************************************)
Perms(n) ==
  { p \in [1..n -> 1..n] : \A i, j \in 1..n : i # j => p[i] # p[j] }

RECURSIVE SetToSeq(_)
SetToSeq(S) ==
  IF S = {} THEN <<>>
  ELSE LET x == CHOOSE y \in S : \A z \in S \ {y} : StrLess(y, z)
       IN  <<x>> \o SetToSeq(S \ {x})

\* the keys of map m in the order `range m` visits them under ord; the keys
\* that ord does not rank are visited last
visit(base, ord) ==
  [i \in 1..Len(base) |->
     IF i <= Len(ord) THEN base[SelectSeq(ord, LAMBDA j : j <= Len(base))[i]]
     ELSE base[i]]

RangeKeys(m, ord) == visit(SetToSeq(DOMAIN m), ord)

\* m with key k set to v (Go: m[k] = v)
MapPut(m, k, v) ==
  [x \in (DOMAIN m) \cup {k} |-> IF x = k THEN v ELSE m[x]]

\* the Go string s as one chunk, for error messages
RECURSIVE Str(_)
Str(s) == IF s = <<>> THEN "" ELSE s[1] \o Str(Tail(s))

(***************************************************************************)
(* Dynamic values (interface{}).                                           *)
(***************************************************************************)
IntV(n)   == [kind |-> "int",   val |-> n]   \* int
StrV(s)   == [kind |-> "str",   val |-> s]   \* string
SliceV(s) == [kind |-> "slice", val |-> s]   \* []int
NullV(n)  == [kind |-> "null",  val |-> n]   \* NullType
RawV(t)   == [kind |-> "raw",   val |-> t]   \* Raw
MapV(m)   == [kind |-> "map",   val |-> m]   \* map[string]interface{}
MapsV(l)  == [kind |-> "maps",  val |-> l]   \* []map[string]interface{}
CmpV(c)   == [kind |-> "cmp",   val |-> c]   \* a Comparable

IsNull    == 1
IsNotNull == 2

\* NullType.String
NullTypeString(nt) == IF nt = IsNull THEN "IS NULL" ELSE "IS NOT NULL"

\* reflect.ValueOf(val).Kind() == reflect.Slice
KindIsSlice(val) == val.kind \in {"slice", "maps"}

\* one element of a []map[string]interface{}: a nil map or a map
NilMap   == [isNil |-> TRUE,  m |-> <<>>]
AMap(m)  == [isNil |-> FALSE, m |-> m]

convertInterfaceToMap(val) ==
  IF ~KindIsSlice(val) THEN [vals |-> <<>>, ok |-> FALSE]
  ELSE IF val.kind = "slice"
       THEN [vals |-> [i \in 1..Len(val.val) |-> IntV(val.val[i])], ok |-> TRUE]
       ELSE [vals |-> [i \in 1..Len(val.val) |-> MapV(val.val[i].m)], ok |-> TRUE]

(***************************************************************************)
(* Operators of the where map.                                             *)
(***************************************************************************)
opEq         == << "=" >>
opNe1        == << "!", "=" >>
opNe2        == << "<", ">" >>
opIn         == << "i", "n" >>
opNotIn      == << "n", "o", "t", " ", "i", "n" >>
opGt         == << ">" >>
opGte        == << ">", "=" >>
opLt         == << "<" >>
opLte        == << "<", "=" >>
opLike       == << "l", "i", "k", "e" >>
opNotLike    == << "n", "o", "t", " ", "l", "i", "k", "e" >>
opBetween    == << "b", "e", "t", "w", "e", "e", "n" >>
opNotBetween == << "n", "o", "t", " ", "b", "e", "t", "w", "e", "e", "n" >>
opNull       == << "n", "u", "l", "l" >>

opOrder ==
  << opEq, opIn, opNe1, opNe2, opNotIn, opGt, opGte, opLt, opLte, opLike,
     opNotLike, opBetween, opNotBetween, opNull >>

isStringInSlice(str, arr) == \E i \in 1..Len(arr) : arr[i] = str

KeyOrderBy  == << "_", "o", "r", "d", "e", "r", "b", "y" >>
KeyGroupBy  == << "_", "g", "r", "o", "u", "p", "b", "y" >>
KeyHaving   == << "_", "h", "a", "v", "i", "n", "g" >>
KeyLimit    == << "_", "l", "i", "m", "i", "t" >>
KeyLockMode == << "_", "l", "o", "c", "k", "M", "o", "d", "e" >>

\* the ignored keys without "_orderby" and "_lockMode"
ignoreKeysOfClauses == { KeyGroupBy, KeyHaving, KeyLimit }

defaultIgnoreKeys == { KeyOrderBy, KeyGroupBy, KeyHaving, KeyLimit, KeyLockMode }

removeInnerSpace(operator) ==
  LET n          == Len(operator)
      firstSpace == IndexByte(operator, " ")
  IN  IF firstSpace = 0 THEN operator
      ELSE LET lastSpace ==
                 CHOOSE l \in firstSpace..n :
                   /\ \A i \in firstSpace..l : operator[i] = " "
                   /\ (l = n \/ operator[l+1] # " ")
           IN  SubSeq(operator, 1, firstSpace - 1) \o SubSeq(operator, lastSpace, n)

\* splitKey after key = strings.Trim(key, " ")
splitTrimmed(k, val) ==
  LET idx == IndexByte(k, " ")
  IN  IF k = <<>>
      THEN [field |-> <<>>, operator |-> <<>>, err |-> "errSplitEmptyKey"]
      ELSE IF idx = 0
      THEN [field |-> k,
            operator |-> IF KindIsSlice(val) THEN << "i", "n" >> ELSE << "=" >>,
            err |-> "nil"]
      ELSE [field |-> SubSeq(k, 1, idx - 1),
            operator |-> removeInnerSpace(Trim(SubSeq(k, idx + 1, Len(k)), " ")),
            err |-> "nil"]

splitKey(key, val) == splitTrimmed(Trim(key, " "), val)

\* whereMapSet.add
whereMapSetAdd(set, oper, field, val) ==
  LET s == IF oper \in DOMAIN set THEN set[oper] ELSE <<>>
  IN  MapPut(set, oper, MapPut(s, field, val))

(***************************************************************************)
(* Conditions (Comparable) and their rendering.                            *)
(* Build returns [cons, vals]: the fragments and the values.               *)
(***************************************************************************)
Cmp(type, with) == [type |-> type, with |-> with]

NoBuild == [cons |-> <<>>, vals |-> <<>>]

\* deprecated in the code: the identity
quoteField(field) == field

assembleExpression(field, oper) == quoteField(field) \o << oper, "?" >>

\* the sorted keys of a condition map
SortedKeys(m, ord) == defaultSortAlgorithm(RangeKeys(m, ord))

\* the loop of build over the sorted keys cond
buildFields(m, oper, cond) ==
  [cons |-> [i \in 1..Len(cond) |->
               IF m[cond[i]].kind = "raw"
               THEN cond[i] \o << oper >> \o m[cond[i]].val
               ELSE assembleExpression(cond[i], oper)],
   vals |-> Flatten([i \in 1..Len(cond) |->
               IF m[cond[i]].kind = "raw" THEN <<>> ELSE << m[cond[i]] >>])]

\* build: Eq, Ne, Gt, Gte, Lt, Lte
build(m, oper, ord) == buildFields(m, oper, SortedKeys(m, ord))

\* Like.Build / NotLike.Build
likeFields(m, word, cond) ==
  [cons |-> [i \in 1..Len(cond) |-> cond[i] \o << word, "?" >>],
   vals |-> [i \in 1..Len(cond) |-> m[cond[i]]]]

likeBuild(m, word, ord) == likeFields(m, word, SortedKeys(m, ord))

\* strings.TrimRight(strings.Repeat("?,", n), ",")
QuestionMarks(n) == Join([i \in 1..n |-> << "?" >>], << "," >>)

buildIn(field, vals) ==
  quoteField(field) \o << " IN (" >> \o QuestionMarks(Len(vals)) \o << ")" >>

buildNotIn(field, vals) ==
  quoteField(field) \o << " NOT IN (" >> \o QuestionMarks(Len(vals)) \o << ")" >>

\* In.Build / NotIn.Build
inFields(m, negated, cond) ==
  [cons |-> [i \in 1..Len(cond) |->
               IF negated THEN buildNotIn(cond[i], m[cond[i]])
               ELSE buildIn(cond[i], m[cond[i]])],
   vals |-> Flatten([i \in 1..Len(cond) |-> m[cond[i]]])]

inBuild(m, negated, ord) == inFields(m, negated, SortedKeys(m, ord))

buildBetween(notBetween, key, vals) ==
  IF Len(vals) # 2
  THEN [s |-> <<>>, err |-> "vals of between must be a slice with two elements"]
  ELSE [s |-> << "(" >> \o key
              \o << IF notBetween THEN " NOT BETWEEN " ELSE " BETWEEN ",
                    "?", " AND ", "?", ")" >>,
        err |-> "nil"]

\* the loop of betweenBuilder over the sorted keys cond
betweenFields(bt, notBetween, cond) ==
  LET b(j) == buildBetween(notBetween, cond[j], bt[cond[j]])
  IN  [cons |-> [j \in 1..Len(cond) |->
                   IF b(j).err # "nil" THEN << "(1=0)" >> ELSE b(j).s],
       vals |-> Flatten([j \in 1..Len(cond) |->
                   IF b(j).err # "nil" THEN <<>> ELSE bt[cond[j]]])]

\* betweenFields that drops a field whose bounds are malformed
betweenFieldsOpen(bt, notBetween, cond) ==
  LET b(j) == buildBetween(notBetween, cond[j], bt[cond[j]])
  IN  [cons |-> Flatten([j \in 1..Len(cond) |->
                   IF b(j).err # "nil" THEN <<>> ELSE << b(j).s >>]),
       vals |-> Flatten([j \in 1..Len(cond) |->
                   IF b(j).err # "nil" THEN <<>> ELSE bt[cond[j]]])]

\* betweenBuilder that drops a field whose bounds are malformed
betweenBuilderOpen(bt, notBetween, ord) ==
  betweenFieldsOpen(bt, notBetween, SortedKeys(bt, ord))

betweenBuilder(bt, notBetween, ord) ==
  betweenFields(bt, notBetween, SortedKeys(bt, ord))

\* nullComparable.Build
nullFields(n, sortedKey) ==
  [cons |-> Flatten([i \in 1..Len(sortedKey) |->
               IF n[sortedKey[i]].kind = "null"
               THEN << sortedKey[i]
                       \o << " ", NullTypeString(n[sortedKey[i]].val) >> >>
               ELSE <<>>]),
   vals |-> <<>>]

nullBuild(n, ord) == nullFields(n, SortedKeys(n, ord))

\* NestWhere.Build / OrWhere.Build: the connected text is one fragment
nested(r) == [cons |-> << r.s >>, vals |-> r.vals]

RECURSIVE BuildC(_, _)
RECURSIVE whereConnector(_, _, _)

\* Comparable.Build, by dynamic type
BuildC(c, ord) ==
  CASE c.type = "Eq"         -> build(c.with, "=", ord)
    [] c.type = "Ne"         -> build(c.with, "!=", ord)
    [] c.type = "Lt"         -> build(c.with, "<", ord)
    [] c.type = "Lte"        -> build(c.with, "<=", ord)
    [] c.type = "Gt"         -> build(c.with, ">", ord)
    [] c.type = "Gte"        -> build(c.with, ">=", ord)
    [] c.type = "Like"       -> likeBuild(c.with, " LIKE ", ord)
    [] c.type = "NotLike"    -> likeBuild(c.with, " NOT LIKE ", ord)
    [] c.type = "In"         -> inBuild(c.with, FALSE, ord)
    [] c.type = "NotIn"      -> inBuild(c.with, TRUE, ord)
    [] c.type = "Between"    -> betweenBuilder(c.with, FALSE, ord)
    [] c.type = "NotBetween" -> betweenBuilder(c.with, TRUE, ord)
    [] c.type = "nullComparable" -> nullBuild(c.with, ord)
    [] c.type = "nilComparable"  -> NoBuild
    [] c.type = "errorComparable" -> NoBuild
    [] c.type = "rawSql"     -> [cons |-> << c.with.sqlCond >>, vals |-> c.with.values]
    [] c.type = "NestWhere"  -> nested(whereConnector("AND", c.with, ord))
    [] c.type = "OrWhere"    -> nested(whereConnector("OR", c.with, ord))

\* the text and the values of the built conditions, connected by andOr
connect(andOr, built) ==
  LET where_ == Flatten([i \in 1..Len(built) |-> built[i].cons])
      values == Flatten([i \in 1..Len(built) |->
                  IF built[i].cons = <<>> THEN <<>> ELSE built[i].vals])
  IN  IF Len(built) = 0 \/ Len(where_) = 0
      THEN [s |-> <<>>, vals |-> <<>>]
      ELSE [s |-> << "(" >> \o Join(where_, << " " \o andOr \o " " >>) \o << ")" >>,
            vals |-> values]

\* connect that keeps the values of the first condition only
connectFirstVals(andOr, built) ==
  LET where_ == Flatten([i \in 1..Len(built) |-> built[i].cons])
  IN  IF Len(built) = 0 \/ Len(where_) = 0
      THEN [s |-> <<>>, vals |-> <<>>]
      ELSE [s |-> << "(" >> \o Join(where_, << " " \o andOr \o " " >>) \o << ")" >>,
            vals |-> built[1].vals]

\* whereConnector that keeps the values of its first condition only
whereConnectorFirstVals(andOr, conditions, ord) ==
  connectFirstVals(andOr, [i \in 1..Len(conditions) |-> BuildC(conditions[i], ord)])

whereConnector(andOr, conditions, ord) ==
  connect(andOr, [i \in 1..Len(conditions) |-> BuildC(conditions[i], ord)])

\* comparableBuildErr
comparableBuildErr(comp) ==
  IF comp.type = "errorComparable" THEN comp.with.err ELSE "nil"

(***************************************************************************)
(* The where-clause compiler.                                              *)
(* Functions that return (value, error) return a record with field err;    *)
(* "nil" is the nil error.                                                 *)
(***************************************************************************)
RECURSIVE convertLoop(_, _, _, _)
convertLoop(keys, where_, oper, result) ==
  IF keys = <<>> THEN [m |-> result, err |-> "nil"]
  ELSE LET key == keys[1]
           c   == convertInterfaceToMap(where_[key])
       IN  IF ~c.ok
           THEN [m |-> <<>>, err |-> "errWhereInterfaceSliceType:" \o Str(oper)]
           ELSE IF Len(c.vals) = 0
           THEN [m |-> <<>>, err |-> "errEmptySliceCondition:" \o Str(oper)]
           ELSE IF (oper = opBetween \/ oper = opNotBetween) /\ Len(c.vals) # 2
           THEN [m |-> <<>>, err |-> "errBetweenValueLength"]
           ELSE convertLoop(Tail(keys), where_, oper, MapPut(result, key, c.vals))

\* convertWhereMapToWhereMapSlice without the check of the number of bounds
RECURSIVE convertLoopAnyLength(_, _, _, _)
convertLoopAnyLength(keys, where_, oper, result) ==
  IF keys = <<>> THEN [m |-> result, err |-> "nil"]
  ELSE LET key == keys[1]
           c   == convertInterfaceToMap(where_[key])
       IN  IF ~c.ok
           THEN [m |-> <<>>, err |-> "errWhereInterfaceSliceType:" \o Str(oper)]
           ELSE IF Len(c.vals) = 0
           THEN [m |-> <<>>, err |-> "errEmptySliceCondition:" \o Str(oper)]
           ELSE convertLoopAnyLength(Tail(keys), where_, oper,
                                     MapPut(result, key, c.vals))

convertAnyLength(where_, oper, ord) ==
  convertLoopAnyLength(RangeKeys(where_, ord), where_, oper, <<>>)

\* ranges over the map: the first defective entry met decides the error
convertWhereMapToWhereMapSlice(where_, oper, ord) ==
  convertLoop(RangeKeys(where_, ord), where_, oper, <<>>)

\* op2Comparable[operator](m)
\* the condition type the entry of op2Comparable for operator constructs
comparableOf(operator) ==
  CASE operator = opEq         -> "Eq"
    [] operator = opNe1        -> "Ne"
    [] operator = opNe2        -> "Ne"
    [] operator = opIn         -> "In"
    [] operator = opNotIn      -> "NotIn"
    [] operator = opBetween    -> "Between"
    [] operator = opNotBetween -> "NotBetween"
    [] operator = opGt         -> "Gt"
    [] operator = opGte        -> "Gte"
    [] operator = opLt         -> "Lt"
    [] operator = opLte        -> "Lte"
    [] operator = opLike       -> "Like"
    [] operator = opNotLike    -> "NotLike"
    [] operator = opNull       -> "nullComparable"

\* the entries that convert the map first: wp is the converted map
converted(type, wp) ==
  IF wp.err # "nil" THEN [cp |-> Cmp("nilComparable", <<>>), err |-> wp.err]
  ELSE [cp |-> Cmp(type, wp.m), err |-> "nil"]

op2Comparable(operator, m, ord) ==
  IF operator \in { opIn, opNotIn, opBetween, opNotBetween }
  THEN converted(comparableOf(operator),
                 convertWhereMapToWhereMapSlice(m, operator, ord))
  ELSE [cp |-> Cmp(comparableOf(operator), m), err |-> "nil"]

RECURSIVE buildWhereLoop(_, _, _, _)
RECURSIVE buildWhereStep(_, _, _, _, _)

\* the loop over opOrder
buildWhereLoop(i, set, cpArr, ord) ==
  IF i > Len(opOrder) THEN [conds |-> cpArr, err |-> "nil"]
  ELSE IF opOrder[i] \notin DOMAIN set THEN buildWhereLoop(i + 1, set, cpArr, ord)
  ELSE buildWhereStep(i, set, cpArr, ord,
                      op2Comparable(opOrder[i], set[opOrder[i]], ord))

\* the rest of one iteration: r is the condition built for opOrder[i]
buildWhereStep(i, set, cpArr, ord, r) ==
  IF r.err # "nil" THEN [conds |-> <<>>, err |-> r.err]
  ELSE buildWhereLoop(i + 1, set, Append(cpArr, r.cp), ord)

buildWhereCondition(mapSet, ord) == buildWhereLoop(1, mapSet, <<>>, ord)

PrefixOr     == << "_", "o", "r" >>
PrefixCustom == << "_", "c", "u", "s", "t", "o", "m", "_" >>

RECURSIVE getWhereConditions(_, _, _)
RECURSIVE orWheresLoop(_, _, _, _)
RECURSIVE orWheresStep(_, _, _, _, _)
RECURSIVE whereKeysLoop(_, _, _, _, _, _)
RECURSIVE whereKeysOr(_, _, _, _, _, _, _)
RECURSIVE whereKeysField(_, _, _, _, _, _, _, _)
RECURSIVE orWheresLoopFlat(_, _, _, _)
RECURSIVE orWheresStepFlat(_, _, _, _, _)

\* orWheresLoop that does not wrap a nested map in its own group
orWheresLoopFlat(orWheres, ignoreKeys, orWhereComparable, ord) ==
  IF orWheres = <<>> THEN [conds |-> orWhereComparable, err |-> "nil"]
  ELSE IF orWheres[1].isNil
  THEN orWheresLoopFlat(Tail(orWheres), ignoreKeys, orWhereComparable, ord)
  ELSE orWheresStepFlat(orWheres, ignoreKeys, orWhereComparable, ord,
                        getWhereConditions(orWheres[1].m, ignoreKeys, ord))

orWheresStepFlat(orWheres, ignoreKeys, orWhereComparable, ord, r) ==
  IF r.err # "nil" THEN [conds |-> <<>>, err |-> r.err]
  ELSE orWheresLoopFlat(Tail(orWheres), ignoreKeys, orWhereComparable \o r.conds, ord)

\* the loop over the nested maps of an "_or" value
orWheresLoop(orWheres, ignoreKeys, orWhereComparable, ord) ==
  IF orWheres = <<>> THEN [conds |-> orWhereComparable, err |-> "nil"]
  ELSE IF orWheres[1].isNil
  THEN orWheresLoop(Tail(orWheres), ignoreKeys, orWhereComparable, ord)
  ELSE orWheresStep(orWheres, ignoreKeys, orWhereComparable, ord,
                    getWhereConditions(orWheres[1].m, ignoreKeys, ord))

\* the rest of one iteration: r is the conditions of the nested map
orWheresStep(orWheres, ignoreKeys, orWhereComparable, ord, r) ==
  IF r.err # "nil" THEN [conds |-> <<>>, err |-> r.err]
  ELSE orWheresLoop(Tail(orWheres), ignoreKeys,
                    Append(orWhereComparable, Cmp("NestWhere", r.conds)), ord)

\* an error return of the loop over the keys
whereKeysFail(e) == [comparables |-> <<>>, wms |-> <<>>, err |-> e]

\* the loop over the sorted keys of the where map
whereKeysLoop(keys, where_, ignoreKeys, comparables, wms, ord) ==
  IF keys = <<>> THEN [comparables |-> comparables, wms |-> wms, err |-> "nil"]
  ELSE
    LET key    == keys[1]
        val    == where_[key]
        rest   == Tail(keys)
    IN
    IF key \in ignoreKeys
    THEN whereKeysLoop(rest, where_, ignoreKeys, comparables, wms, ord)
    ELSE IF HasPrefix(key, PrefixOr)
    THEN IF val.kind # "maps" THEN whereKeysFail("errOrValueType")
         ELSE whereKeysOr(rest, where_, ignoreKeys, comparables, wms, ord,
                          orWheresLoop(val.val, ignoreKeys, <<>>, ord))
    ELSE IF HasPrefix(key, PrefixCustom)
    THEN IF val.kind # "cmp" THEN whereKeysFail("errCustomValueType")
         ELSE IF comparableBuildErr(val.val) # "nil"
         THEN whereKeysFail(comparableBuildErr(val.val))
         ELSE whereKeysLoop(rest, where_, ignoreKeys,
                            Append(comparables, val.val), wms, ord)
    ELSE whereKeysField(rest, where_, ignoreKeys, comparables, wms, ord, val,
                        splitKey(key, val))

\* the rest of the iteration on an "_or" key: r is the result of orWheresLoop
whereKeysOr(rest, where_, ignoreKeys, comparables, wms, ord, r) ==
  IF r.err # "nil" THEN whereKeysFail(r.err)
  ELSE whereKeysLoop(rest, where_, ignoreKeys,
                     Append(comparables, Cmp("OrWhere", r.conds)), wms, ord)

\* the rest of the iteration on a field key: sk is the result of splitKey
whereKeysField(rest, where_, ignoreKeys, comparables, wms, ord, val, sk) ==
  LET operator == ToLower(sk.operator)
  IN  IF sk.err # "nil" THEN whereKeysFail(sk.err)
      ELSE IF ~isStringInSlice(operator, opOrder)
      THEN whereKeysFail("ErrUnsupportedOperator")
      ELSE whereKeysLoop(rest, where_, ignoreKeys, comparables,
             whereMapSetAdd(wms,
                            IF val.kind = "null" THEN opNull ELSE operator,
                            sk.field, val),
             ord)

\* the end of getWhereConditions: l is the result of the loop over the keys
\* and w the result of buildWhereCondition
whereConditions(l, w) ==
  IF l.err # "nil" THEN [conds |-> <<>>, err |-> l.err]
  ELSE IF w.err # "nil" THEN [conds |-> <<>>, err |-> w.err]
  ELSE [conds |-> l.comparables \o w.conds, err |-> "nil"]

\* getWhereConditions after the loop over the keys
whereFields(l, ord) == whereConditions(l, buildWhereCondition(l.wms, ord))

getWhereConditions(where_, ignoreKeys, ord) ==
  IF DOMAIN where_ = {} THEN [conds |-> <<>>, err |-> "nil"]
  ELSE whereFields(whereKeysLoop(defaultSortAlgorithm(RangeKeys(where_, ord)),
                                 where_, ignoreKeys, <<>>, <<>>, ord),
                   ord)

(***************************************************************************)
(* The dialect layer.                                                      *)
(***************************************************************************)
DialectMySQL    == "mysql"
DialectPostgres == "postgres"
DialectSQLite   == "sqlite"

Dialects == { DialectMySQL, DialectPostgres, DialectSQLite }

\* a builder result (sql, args, error)
Result(sql, args, err) == [sql |-> sql, args |-> args, err |-> err]

Fail(err) == Result(<<>>, <<>>, err)

RECURSIVE rebindFrom(_, _)
rebindFrom(query, counter) ==
  IF query = <<>> THEN <<>>
  ELSE IF query[1] # "?"
  THEN << query[1] >> \o rebindFrom(Tail(query), counter)
  ELSE << "$" \o ToString(counter) >> \o rebindFrom(Tail(query), counter + 1)

\* rebindQuery that numbers the placeholders from zero
rebindQueryFromZero(d, query) ==
  IF d # DialectPostgres THEN query ELSE rebindFrom(query, 0)

rebindQuery(d, query) ==
  IF d # DialectPostgres THEN query ELSE rebindFrom(query, 1)

finalizeQuery(d, query, vals) == Result(rebindQuery(d, query), vals, "nil")

Share     == << "s", "h", "a", "r", "e" >>
Exclusive == << "e", "x", "c", "l", "u", "s", "i", "v", "e" >>

\* lockClause that renders no clause where it should refuse the mode
lockClauseSilent(d, lockMode) ==
  IF d = DialectSQLite \/ lockMode \notin { Share, Exclusive }
  THEN [s |-> <<>>, err |-> "nil"]
  ELSE IF lockMode = Exclusive THEN [s |-> << " FOR UPDATE" >>, err |-> "nil"]
  ELSE IF d = DialectMySQL THEN [s |-> << " LOCK IN SHARE MODE" >>, err |-> "nil"]
  ELSE [s |-> << " FOR SHARE" >>, err |-> "nil"]

lockClause(d, lockMode) ==
  CASE d = DialectMySQL ->
         IF lockMode = Share THEN [s |-> << " LOCK IN SHARE MODE" >>, err |-> "nil"]
         ELSE IF lockMode = Exclusive THEN [s |-> << " FOR UPDATE" >>, err |-> "nil"]
         ELSE [s |-> <<>>, err |-> "errNotAllowedLockMode"]
    [] d = DialectPostgres ->
         IF lockMode = Share THEN [s |-> << " FOR SHARE" >>, err |-> "nil"]
         ELSE IF lockMode = Exclusive THEN [s |-> << " FOR UPDATE" >>, err |-> "nil"]
         ELSE [s |-> <<>>, err |-> "errNotAllowedLockMode"]
    [] d = DialectSQLite -> [s |-> <<>>, err |-> "errNotAllowedLockMode"]

limitIdentifier(d) ==
  CASE d = DialectPostgres -> << "ctid" >>
    [] d = DialectSQLite   -> << "rowid" >>
    [] OTHER               -> <<>>

unsupportedFeature(d, feature) ==
  "errFeatureUnsupportedDialect: " \o feature \o " for " \o d

(***************************************************************************)
(* Directive values: _orderby, _groupby, _limit, _having.                  *)
(***************************************************************************)
Letters == { UpperLetters[i] : i \in 1..Len(UpperLetters) }
             \cup { LowerLetters[i] : i \in 1..Len(LowerLetters) }
Digits  == { "0", "1", "2", "3", "4", "5", "6", "7", "8", "9" }

UpperChar(c) ==
  IF \E i \in 1..Len(LowerLetters) : LowerLetters[i] = c
  THEN UpperLetters[CHOOSE i \in 1..Len(LowerLetters) : LowerLetters[i] = c]
  ELSE c

ToUpper(s) == [i \in 1..Len(s) |-> UpperChar(s[i])]

\* strings.TrimSpace (the only white space of the model is the space)
TrimSpace(s) == Trim(s, " ")

RECURSIVE Split(_, _)
Split(s, sep) ==
  LET i == IndexByte(s, sep)
  IN  IF i = 0 THEN << s >>
      ELSE << SubSeq(s, 1, i - 1) >> \o Split(SubSeq(s, i + 1, Len(s)), sep)

RECURSIVE Fields(_)
Fields(s) ==
  LET t == TrimLeft(s, " ")
      i == IndexByte(t, " ")
  IN  IF t = <<>> THEN <<>>
      ELSE IF i = 0 THEN << t >>
      ELSE << SubSeq(t, 1, i - 1) >> \o Fields(SubSeq(t, i + 1, Len(t)))

\* fieldPattern: an identifier or a backtick-quoted name
fieldPattern(s) ==
  \/ /\ s # <<>>
     /\ s[1] \in Letters \cup { "_" }
     /\ \A i \in 2..Len(s) : s[i] \in Letters \cup Digits \cup { "_" }
  \/ /\ Len(s) >= 3
     /\ s[1] = BQ /\ s[Len(s)] = BQ
     /\ \A i \in 2..(Len(s) - 1) : s[i] # BQ

\* ^field(\.field)*$
RECURSIVE groupByPattern(_)
groupByPattern(s) ==
  \E n \in 1..Len(s) :
    /\ fieldPattern(SubSeq(s, 1, n))
    /\ \/ n = Len(s)
       \/ /\ n < Len(s)
          /\ s[n + 1] = "."
          /\ groupByPattern(SubSeq(s, n + 2, Len(s)))

\* (?i)^field(\.field)*(?:\s+(asc|desc))?$
orderByPattern(s) ==
  \/ groupByPattern(s)
  \/ \E n \in 1..Len(s) : \E k \in (n + 1)..Len(s) :
       /\ groupByPattern(SubSeq(s, 1, n))
       /\ \A i \in (n + 1)..k : s[i] = " "
       /\ ToLower(SubSeq(s, k + 1, Len(s)))
            \in { << "a", "s", "c" >>, << "d", "e", "s", "c" >> }

\* a valid term with its direction in upper case; parts is its fields
orderTerm(trimmed, parts) ==
  IF Len(parts) = 2
  THEN Join(<< parts[1], ToUpper(parts[2]) >>, << " " >>)
  ELSE trimmed

RECURSIVE orderTermsLoop(_, _)
RECURSIVE orderTermsStep(_, _, _)

\* the loop over the terms of an "_orderby" string
orderTermsLoop(terms, normalized) ==
  IF terms = <<>> THEN [s |-> Join(normalized, << "," >>), err |-> "nil"]
  ELSE orderTermsStep(terms, normalized,
                      Join(Fields(TrimSpace(terms[1])), << " " >>))

\* the rest of one iteration: trimmed is the term with its spaces collapsed
orderTermsStep(terms, normalized, trimmed) ==
  IF trimmed = <<>> \/ ~orderByPattern(trimmed)
  THEN [s |-> <<>>, err |-> "errOrderByValueInvalid"]
  ELSE orderTermsLoop(Tail(terms),
                      Append(normalized, orderTerm(trimmed, Fields(trimmed))))

normalizeOrderByClause(orderBy) ==
  IF TrimSpace(orderBy) = <<>> THEN [s |-> <<>>, err |-> "nil"]
  ELSE orderTermsLoop(Split(TrimSpace(orderBy), ","), <<>>)

RECURSIVE groupTermsLoop(_, _)
groupTermsLoop(terms, normalized) ==
  IF terms = <<>> THEN [s |-> Join(normalized, << "," >>), err |-> "nil"]
  ELSE LET trimmed == TrimSpace(terms[1])
       IN  IF trimmed = <<>> \/ ~groupByPattern(trimmed)
           THEN [s |-> <<>>, err |-> "errGroupByValueInvalid"]
           ELSE groupTermsLoop(Tail(terms), Append(normalized, trimmed))

\* normalizeGroupByClause that passes the trimmed string through
normalizeGroupByClauseUnchecked(groupBy) ==
  [s |-> TrimSpace(groupBy), err |-> "nil"]

normalizeGroupByClause(groupBy) ==
  IF TrimSpace(groupBy) = <<>> THEN [s |-> <<>>, err |-> "nil"]
  ELSE groupTermsLoop(Split(TrimSpace(groupBy), ","), <<>>)

parseOrderByClause(value) ==
  CASE value.kind = "str" -> normalizeOrderByClause(value.val)
    [] value.kind = "raw" -> [s |-> TrimSpace(value.val), err |-> "nil"]
    [] OTHER              -> [s |-> <<>>, err |-> "errOrderByValueType"]

parseGroupByClause(value) ==
  CASE value.kind = "str" -> normalizeGroupByClause(value.val)
    [] value.kind = "raw" -> [s |-> TrimSpace(value.val), err |-> "nil"]
    [] OTHER              -> [s |-> <<>>, err |-> "errGroupByValueType"]

\* parseLimit, for values of type int and []int
parseLimit(value) ==
  CASE value.kind = "int" ->
         IF value.val < 0 THEN [parsed |-> <<>>, err |-> "errLimitType"]
         ELSE [parsed |-> << value.val >>, err |-> "nil"]
    [] value.kind = "slice" ->
         IF Len(value.val) = 0 \/ Len(value.val) > 2
         THEN [parsed |-> <<>>, err |-> "errLimitValueLength"]
         ELSE IF \E i \in 1..Len(value.val) : value.val[i] < 0
         THEN [parsed |-> <<>>, err |-> "errLimitType"]
         ELSE [parsed |-> value.val, err |-> "nil"]
    [] OTHER -> [parsed |-> <<>>, err |-> "errLimitValueType"]

\* *eleLimit: isNil, or (begin, step)
NoLimit == [isNil |-> TRUE, begin |-> 0, step |-> 0]

\* parseSelectLimit that reads a pair as (count, offset)
parseSelectLimitSwapped(value) ==
  LET p == parseLimit(value)
  IN  IF p.err # "nil" THEN [limit |-> NoLimit, err |-> p.err]
      ELSE IF Len(p.parsed) = 1
      THEN [limit |-> [isNil |-> FALSE, begin |-> 0, step |-> p.parsed[1]],
            err |-> "nil"]
      ELSE [limit |-> [isNil |-> FALSE, begin |-> p.parsed[2], step |-> p.parsed[1]],
            err |-> "nil"]

parseSelectLimit(value) ==
  LET p == parseLimit(value)
  IN  IF p.err # "nil" THEN [limit |-> NoLimit, err |-> p.err]
      ELSE IF Len(p.parsed) = 1
      THEN [limit |-> [isNil |-> FALSE, begin |-> 0, step |-> p.parsed[1]],
            err |-> "nil"]
      ELSE [limit |-> [isNil |-> FALSE, begin |-> p.parsed[1], step |-> p.parsed[2]],
            err |-> "nil"]

\* getLimit that takes the second element of any pair
getLimitAnyOffset(where_) ==
  IF KeyLimit \notin DOMAIN where_ THEN [limit |-> 0, err |-> "nil"]
  ELSE LET p == parseLimit(where_[KeyLimit])
       IN  IF p.err # "nil"
           THEN [limit |-> 0,
                 err |-> IF p.err = "errLimitValueType" THEN "errLimitType" ELSE p.err]
           ELSE [limit |-> p.parsed[Len(p.parsed)], err |-> "nil"]

getLimit(where_) ==
  IF KeyLimit \notin DOMAIN where_ THEN [limit |-> 0, err |-> "nil"]
  ELSE LET p == parseLimit(where_[KeyLimit])
       IN  IF p.err # "nil"
           THEN [limit |-> 0,
                 err |-> IF p.err = "errLimitValueType" THEN "errLimitType" ELSE p.err]
           ELSE IF Len(p.parsed) = 1 THEN [limit |-> p.parsed[1], err |-> "nil"]
           ELSE IF p.parsed[1] # 0
           THEN [limit |-> 0, err |-> "errLimitOffsetNotSupported"]
           ELSE [limit |-> p.parsed[2], err |-> "nil"]

RECURSIVE havingLoop(_, _, _)
RECURSIVE havingStep(_, _, _, _)

\* the loop over the keys of the "_having" map
havingLoop(keys, havingMap, copiedMap) ==
  IF keys = <<>> THEN [m |-> copiedMap, isNil |-> FALSE, err |-> "nil"]
  ELSE havingStep(keys, havingMap, copiedMap, splitKey(keys[1], havingMap[keys[1]]))

\* the rest of one iteration: sk is the result of splitKey
havingStep(keys, havingMap, copiedMap, sk) ==
  IF sk.err # "nil" THEN [m |-> <<>>, isNil |-> TRUE, err |-> sk.err]
  ELSE IF ~isStringInSlice(ToLower(sk.operator), opOrder)
  THEN [m |-> <<>>, isNil |-> TRUE, err |-> "errHavingUnsupportedOperator"]
  ELSE havingLoop(Tail(keys), havingMap,
                  MapPut(copiedMap, keys[1], havingMap[keys[1]]))

\* ranges over the map: the first defective key met decides the error
resolveHaving(having, ord) ==
  IF having.kind # "map" THEN [m |-> <<>>, isNil |-> TRUE, err |-> "errHavingValueType"]
  ELSE havingLoop(RangeKeys(having.val, ord), having.val, <<>>)

(***************************************************************************)
(* Statement builders: SELECT, UPDATE, DELETE.                             *)
(***************************************************************************)
\* splitCondition: the conditions before and after the last sentinel
splitCondition(conditions) ==
  LET marks == { i \in 1..Len(conditions) : conditions[i].type = "nilComparable" }
      i     == IF marks = {} THEN 0
               ELSE CHOOSE x \in marks : \A y \in marks : y <= x
  IN  IF i >= 1 /\ i < Len(conditions)
      THEN [where_ |-> SubSeq(conditions, 1, i - 1),
            having |-> SubSeq(conditions, i + 1, Len(conditions)),
            hasHaving |-> TRUE]
      ELSE [where_ |-> conditions, having |-> <<>>, hasHaving |-> FALSE]

\* the statement of buildSelect: w and h are the connected conditions
\* before and after the sentinel
selectQuery(d, table, ufields, groupBy, orderBy, lockClause_, limit, hasHaving, w, h) ==
  finalizeQuery(d,
    << "SELECT " >>
      \o (IF Len(ufields) > 0
          THEN Join([i \in 1..Len(ufields) |-> quoteField(ufields[i])], << "," >>)
          ELSE << "*" >>)
      \o << " FROM " >> \o table
      \o (IF w.s # <<>> THEN << " WHERE " >> \o w.s ELSE <<>>)
      \o (IF groupBy # <<>> THEN << " GROUP BY " >> \o groupBy ELSE <<>>)
      \o (IF hasHaving THEN << " HAVING " >> \o h.s ELSE <<>>)
      \o (IF orderBy # <<>> THEN << " ORDER BY " >> \o orderBy ELSE <<>>)
      \o (IF limit.isNil THEN <<>>
          ELSE IF d = DialectMySQL THEN << " LIMIT ", "?", ",", "?" >>
          ELSE << " LIMIT ", "?", " OFFSET ", "?" >>)
      \o lockClause_,
    w.vals
      \o (IF hasHaving THEN h.vals ELSE <<>>)
      \o (IF limit.isNil THEN <<>>
          ELSE IF d = DialectMySQL
          THEN << IntV(limit.begin), IntV(limit.step) >>
          ELSE << IntV(limit.step), IntV(limit.begin) >>))

\* buildSelect after splitCondition
selectSplit(d, table, ufields, groupBy, orderBy, lockClause_, limit, sp, ord) ==
  selectQuery(d, table, ufields, groupBy, orderBy, lockClause_, limit, sp.hasHaving,
              whereConnector("AND", sp.where_, ord),
              whereConnector("AND", sp.having, ord))

\* Builder.buildSelect
buildSelect(d, table, ufields, groupBy, orderBy, lockClause_, limit, conditions, ord) ==
  selectSplit(d, table, ufields, groupBy, orderBy, lockClause_, limit,
              splitCondition(conditions), ord)

\* Builder.BuildSelect
\* BuildSelect after both calls of getWhereConditions: cs is the conditions
\* of the where map and hc the conditions of the "_having" map
selectConditions(d, table, selectField_, ob, gb, hv, lm, lk, cs, hc, ord) ==
  IF cs.err # "nil" THEN Fail(cs.err)
  ELSE IF ~hv.isNil /\ hc.err # "nil" THEN Fail(hc.err)
  ELSE buildSelect(d, table, selectField_, gb.s, ob.s, lk.s, lm.limit,
                   IF hv.isNil THEN cs.conds
                   ELSE cs.conds \o << Cmp("nilComparable", <<>>) >> \o hc.conds,
                   ord)

\* BuildSelect after the directives: ob, gb, hv, lm and lk are the results
\* for "_orderby", "_groupby", "_having", "_limit" and "_lockMode"
selectDirectives(d, table, where_, selectField_, ob, gb, hv, lm, lk, ord) ==
  IF ob.err # "nil" THEN Fail(ob.err)
  ELSE IF gb.err # "nil" THEN Fail(gb.err)
  ELSE IF hv.err # "nil" THEN Fail(hv.err)
  ELSE IF lm.err # "nil" THEN Fail(lm.err)
  ELSE IF lk.err # "nil" THEN Fail(lk.err)
  ELSE selectConditions(d, table, selectField_, ob, gb, hv, lm, lk,
                        getWhereConditions(where_, defaultIgnoreKeys, ord),
                        getWhereConditions(hv.m, defaultIgnoreKeys, ord), ord)

\* BuildSelect after "_orderby" and "_groupby"
selectGrouped(d, table, where_, selectField_, ob, gb, ord) ==
  selectDirectives(d, table, where_, selectField_, ob, gb,
    IF KeyGroupBy \in DOMAIN where_ /\ gb.s # <<>> /\ KeyHaving \in DOMAIN where_
    THEN resolveHaving(where_[KeyHaving], ord)
    ELSE [m |-> <<>>, isNil |-> TRUE, err |-> "nil"],
    IF KeyLimit \in DOMAIN where_ THEN parseSelectLimit(where_[KeyLimit])
    ELSE [limit |-> NoLimit, err |-> "nil"],
    IF KeyLockMode \notin DOMAIN where_ THEN [s |-> <<>>, err |-> "nil"]
    ELSE IF where_[KeyLockMode].kind # "str"
    THEN [s |-> <<>>, err |-> "errLockModeValueType"]
    ELSE lockClause(d, TrimSpace(where_[KeyLockMode].val)),
    ord)

\* Builder.BuildSelect
BuildSelect(d, table, where_, selectField_, ord) ==
  selectGrouped(d, table, where_, selectField_,
    IF KeyOrderBy \in DOMAIN where_ THEN parseOrderByClause(where_[KeyOrderBy])
    ELSE [s |-> <<>>, err |-> "nil"],
    IF KeyGroupBy \in DOMAIN where_ THEN parseGroupByClause(where_[KeyGroupBy])
    ELSE [s |-> <<>>, err |-> "nil"],
    ord)

RECURSIVE resolveUpdateLoop(_, _, _, _, _)
RECURSIVE resolveUpdateCustom(_, _, _, _, _, _)

\* the loop over the sorted keys of the update map
resolveUpdateLoop(keys, update_, sb, vals, ord) ==
  IF keys = <<>> THEN [sets |-> TrimRight(sb, ","), vals |-> vals, err |-> "nil"]
  ELSE
    LET k == keys[1]
        v == update_[k]
    IN
    IF v.kind = "raw"
    THEN resolveUpdateLoop(Tail(keys), update_, sb \o k \o << "=" >> \o v.val \o << "," >>,
                           vals, ord)
    ELSE IF HasPrefix(k, PrefixCustom)
    THEN IF v.kind # "cmp" THEN resolveUpdateLoop(Tail(keys), update_, sb, vals, ord)
         ELSE IF comparableBuildErr(v.val) # "nil"
         THEN [sets |-> <<>>, vals |-> <<>>, err |-> comparableBuildErr(v.val)]
         ELSE resolveUpdateCustom(keys, update_, sb, vals, ord, BuildC(v.val, ord))
    ELSE resolveUpdateLoop(Tail(keys), update_,
                           sb \o quoteField(k) \o << "=", "?", "," >>,
                           Append(vals, v), ord)

\* the rest of the iteration on a "_custom_" key: b is the built condition
resolveUpdateCustom(keys, update_, sb, vals, ord, b) ==
  resolveUpdateLoop(Tail(keys), update_,
                    sb \o Flatten([i \in 1..Len(b.cons) |-> b.cons[i] \o << "," >>]),
                    vals \o b.vals, ord)

resolveUpdate(update_, ord) ==
  resolveUpdateLoop(defaultSortAlgorithm(RangeKeys(update_, ord)), update_, <<>>, <<>>, ord)

\* the statement of buildUpdate: u is the resolved update map and w the
\* connected conditions
updateQuery(d, table, limit, u, w) ==
  LET cond  == << "UPDATE " >> \o quoteField(table) \o << " SET " >> \o u.sets
      plain == IF w.s # <<>> THEN cond \o << " WHERE " >> \o w.s ELSE cond
      pvals == IF w.s # <<>> THEN u.vals \o w.vals ELSE u.vals
      limitedRowsSelect ==
               << "SELECT " >> \o limitIdentifier(d) \o << " FROM " >> \o quoteField(table)
               \o (IF w.s # <<>> THEN << " WHERE " >> \o w.s ELSE <<>>)
               \o << " LIMIT ", "?" >>
  IN  IF u.err # "nil" THEN Fail(u.err)
      ELSE IF limit = 0 THEN finalizeQuery(d, plain, pvals)
      ELSE IF d = DialectMySQL
      THEN finalizeQuery(d, plain \o << " LIMIT ", "?" >>, Append(pvals, IntV(limit)))
      ELSE finalizeQuery(d,
             cond \o << " WHERE " >> \o limitIdentifier(d) \o << " IN (" >>
                  \o limitedRowsSelect \o << ")" >>,
             u.vals \o w.vals \o << IntV(limit) >>)

\* Builder.buildUpdate
buildUpdate(d, table, update_, limit, conditions, ord) ==
  updateQuery(d, table, limit, resolveUpdate(update_, ord),
              whereConnector("AND", conditions, ord))

\* BuildUpdate that returns the statement it has begun with the error of
\* the where map
updateWherePartial(d, table, update_, l, cs, ord) ==
  IF l.err # "nil" THEN Fail(l.err)
  ELSE IF cs.err # "nil" THEN Result(<< "UPDATE " >> \o quoteField(table), <<>>, cs.err)
  ELSE buildUpdate(d, table, update_, l.limit, cs.conds, ord)

\* BuildUpdate after getLimit and getWhereConditions
updateWhere(d, table, update_, l, cs, ord) ==
  IF l.err # "nil" THEN Fail(l.err)
  ELSE IF cs.err # "nil" THEN Fail(cs.err)
  ELSE buildUpdate(d, table, update_, l.limit, cs.conds, ord)

\* Builder.BuildUpdate
BuildUpdate(d, table, where_, update_, ord) ==
  updateWhere(d, table, update_, getLimit(where_),
              getWhereConditions(where_, defaultIgnoreKeys, ord), ord)

\* the statement of buildDelete: w is the connected conditions
deleteQuery(d, table, limit, w) ==
  LET plain == << "DELETE FROM " >> \o quoteField(table)
               \o (IF Len(w.s) > 0 THEN << " WHERE " >> \o w.s ELSE <<>>)
      limitedRowsSelect ==
               << "SELECT " >> \o limitIdentifier(d) \o << " FROM " >> \o quoteField(table)
               \o (IF w.s # <<>> THEN << " WHERE " >> \o w.s ELSE <<>>)
               \o << " LIMIT ", "?" >>
  IN  IF limit = 0 THEN finalizeQuery(d, plain, w.vals)
      ELSE IF d = DialectMySQL
      THEN finalizeQuery(d, plain \o << " LIMIT ", "?" >>, Append(w.vals, IntV(limit)))
      ELSE finalizeQuery(d,
             << "DELETE FROM " >> \o quoteField(table) \o << " WHERE " >>
               \o limitIdentifier(d) \o << " IN (" >> \o limitedRowsSelect \o << ")" >>,
             Append(w.vals, IntV(limit)))

\* Builder.buildDelete
buildDelete(d, table, limit, conditions, ord) ==
  deleteQuery(d, table, limit, whereConnector("AND", conditions, ord))

\* BuildDelete after getLimit and getWhereConditions
deleteWhere(d, table, l, cs, ord) ==
  IF l.err # "nil" THEN Fail(l.err)
  ELSE IF cs.err # "nil" THEN Fail(cs.err)
  ELSE buildDelete(d, table, l.limit, cs.conds, ord)

\* Builder.BuildDelete
BuildDelete(d, table, where_, ord) ==
  deleteWhere(d, table, getLimit(where_),
              getWhereConditions(where_, defaultIgnoreKeys, ord), ord)

(***************************************************************************)
(* Statement builders: the INSERT family and upsert.                       *)
(***************************************************************************)
commonInsert  == "INSERT INTO"
ignoreInsert  == "INSERT IGNORE INTO"
replaceInsert == "REPLACE INTO"

quoteFields(keys) == [i \in 1..Len(keys) |-> quoteField(keys[i])]

resolveFields(m, ord) == defaultSortAlgorithm(quoteFields(RangeKeys(m, ord)))

\* the values of one row, or the mismatch error
RECURSIVE rowValues(_, _)
rowValues(mapItem, fields) ==
  IF fields = <<>> THEN [vals |-> <<>>, err |-> "nil"]
  ELSE IF fields[1] \notin DOMAIN mapItem
  THEN [vals |-> <<>>, err |-> "errInsertDataNotMatch"]
  ELSE LET r == rowValues(mapItem, Tail(fields))
       IN  IF r.err # "nil" THEN r
           ELSE [vals |-> << mapItem[fields[1]] >> \o r.vals, err |-> "nil"]

\* rv followed by the values of the rows after it
rowsAppend(r, t) ==
  IF r.err # "nil" THEN r
  ELSE IF t.err # "nil" THEN t
  ELSE [vals |-> r.vals \o t.vals, err |-> "nil"]

RECURSIVE rowsValues(_, _)
rowsValues(setMap, fields) ==
  IF setMap = <<>> THEN [vals |-> <<>>, err |-> "nil"]
  ELSE rowsAppend(rowValues(setMap[1], fields), rowsValues(Tail(setMap), fields))

\* the statement of buildInsertRaw: fields is the sorted columns of the
\* first row and rv the values of the rows
insertQuery(d, table, setMap, insertType, fields, rv) ==
  LET command == IF insertType = ignoreInsert /\ d = DialectMySQL
                 THEN "INSERT IGNORE INTO"
                 ELSE IF insertType = replaceInsert THEN "REPLACE INTO"
                 ELSE "INSERT INTO"
      suffix  == IF insertType = ignoreInsert /\ d # DialectMySQL
                 THEN << " ON CONFLICT DO NOTHING" >> ELSE <<>>
      placeholder == << "(" >> \o QuestionMarks(Len(fields)) \o << ")" >>
      sets    == [i \in 1..Len(setMap) |-> placeholder]
  IN  IF rv.err # "nil" THEN Fail(rv.err)
      ELSE Result(<< command, " " >> \o quoteField(table) \o << " (" >>
                    \o Join(fields, << "," >>) \o << ") VALUES " >>
                    \o Join(sets, << "," >>) \o suffix,
                  rv.vals, "nil")

\* buildInsertRaw after resolveFields
insertRows(d, table, setMap, insertType, fields) ==
  insertQuery(d, table, setMap, insertType, fields, rowsValues(setMap, fields))

\* Builder.buildInsertRaw
buildInsertRaw(d, table, setMap, insertType, ord) ==
  IF Len(setMap) < 1 THEN Fail("errInsertNullData")
  ELSE IF insertType = replaceInsert /\ d = DialectPostgres
  THEN Fail(unsupportedFeature(d, "BuildReplaceInsert"))
  ELSE insertRows(d, table, setMap, insertType, resolveFields(setMap[1], ord))

\* `if err != nil { return "", nil, err }; return b.finalizeQuery(cond, vals)`
finalizeResult(d, r) ==
  IF r.err # "nil" THEN Fail(r.err) ELSE finalizeQuery(d, r.sql, r.args)

\* Builder.buildInsert
buildInsert(d, table, setMap, insertType, ord) ==
  finalizeResult(d, buildInsertRaw(d, table, setMap, insertType, ord))

BuildInsert(d, table, data_, ord)        == buildInsert(d, table, data_, commonInsert, ord)
BuildInsertIgnore(d, table, data_, ord)  == buildInsert(d, table, data_, ignoreInsert, ord)
BuildReplaceInsert(d, table, data_, ord) == buildInsert(d, table, data_, replaceInsert, ord)

\* Builder.buildInsertOnDuplicate
\* the insert statement i followed by the updates u of a duplicate key
onDuplicateQuery(d, i, u) ==
  IF i.err # "nil" THEN Fail(i.err)
  ELSE IF u.err # "nil" THEN Fail(u.err)
  ELSE finalizeQuery(d, i.sql \o << " ON DUPLICATE KEY UPDATE " >> \o u.sets,
                     i.args \o u.vals)

buildInsertOnDuplicate(d, table, data_, update_, ord) ==
  IF d # DialectMySQL THEN Fail(unsupportedFeature(d, "BuildInsertOnDuplicate"))
  ELSE onDuplicateQuery(d, buildInsertRaw(d, table, data_, commonInsert, ord),
                        resolveUpdate(update_, ord))

BuildInsertOnDuplicate(d, table, data_, update_, ord) ==
  buildInsertOnDuplicate(d, table, data_, update_, ord)

RECURSIVE conflictLoop(_, _)
conflictLoop(conflictColumns, columns) ==
  IF conflictColumns = <<>>
  THEN [s |-> << "(" >> \o Join(columns, << "," >>) \o << ")" >>, err |-> "nil"]
  ELSE LET c == TrimSpace(conflictColumns[1])
       IN  IF c = <<>> THEN [s |-> <<>>, err |-> "errEmptyConflictColumns"]
           ELSE conflictLoop(Tail(conflictColumns), Append(columns, quoteField(c)))

buildConflictTarget(conflictColumns) ==
  IF Len(conflictColumns) = 0 THEN [s |-> <<>>, err |-> "nil"]
  ELSE conflictLoop(conflictColumns, <<>>)

\* upsertNothing that leaves the conflict target out of the statement
upsertNothingNoTarget(d, i, t) ==
  IF i.err # "nil" THEN Fail(i.err)
  ELSE IF t.err # "nil" THEN Fail(t.err)
  ELSE finalizeQuery(d, i.sql \o << " ON CONFLICT DO NOTHING" >>, i.args)

\* Builder.BuildUpsert
\* BuildUpsert with an empty update map, outside MySQL: i is the insert
\* statement and t the conflict target
upsertNothing(d, i, t) ==
  IF i.err # "nil" THEN Fail(i.err)
  ELSE IF t.err # "nil" THEN Fail(t.err)
  ELSE IF t.s = <<>>
  THEN finalizeQuery(d, i.sql \o << " ON CONFLICT DO NOTHING" >>, i.args)
  ELSE finalizeQuery(d, i.sql \o << " ON CONFLICT " >> \o t.s
                              \o << " DO NOTHING" >>, i.args)

\* upsertUpdate that takes an empty conflict target
upsertUpdateAnyTarget(d, i, t, u) ==
  IF d = DialectMySQL
  THEN onDuplicateQuery(d, i, u)
  ELSE IF t.err # "nil" THEN Fail(t.err)
  ELSE IF i.err # "nil" THEN Fail(i.err)
  ELSE IF u.err # "nil" THEN Fail(u.err)
  ELSE finalizeQuery(d, i.sql \o << " ON CONFLICT " >> \o t.s
                              \o << " DO UPDATE SET " >> \o u.sets,
                     i.args \o u.vals)

\* BuildUpsert with updates: i is the insert statement, t the conflict
\* target and u the resolved update map
upsertUpdate(d, i, t, u) ==
  IF d = DialectMySQL
  THEN onDuplicateQuery(d, i, u)
  ELSE IF t.err # "nil" THEN Fail(t.err)
  ELSE IF t.s = <<>> THEN Fail("errEmptyConflictColumns")
  ELSE IF i.err # "nil" THEN Fail(i.err)
  ELSE IF u.err # "nil" THEN Fail(u.err)
  ELSE finalizeQuery(d, i.sql \o << " ON CONFLICT " >> \o t.s
                              \o << " DO UPDATE SET " >> \o u.sets,
                     i.args \o u.vals)

\* BuildUpsert after the insert statement i is built
upsertQuery(d, table, data_, conflictColumns, update_, ord, i) ==
  IF DOMAIN update_ = {}
  THEN IF d = DialectMySQL THEN buildInsert(d, table, data_, ignoreInsert, ord)
       ELSE upsertNothing(d, i, buildConflictTarget(conflictColumns))
  ELSE upsertUpdate(d, i, buildConflictTarget(conflictColumns),
                    resolveUpdate(update_, ord))

BuildUpsert(d, table, data_, conflictColumns, update_, ord) ==
  upsertQuery(d, table, data_, conflictColumns, update_, ord,
              buildInsertRaw(d, table, data_, commonInsert, ord))

(***************************************************************************)
(* Named queries.                                                          *)
(***************************************************************************)
createMultiPlaceholders(num) ==
  IF num = 0 THEN <<>>
  ELSE << "(" >> \o QuestionMarks(num) \o << ")" >>

\* searchHandle = {{\S+?}}: the index of the last byte of the match that
\* starts at i (the shortest one), or 0 when none starts there
searchHandleEnd(sql, i) ==
  LET ends == { j \in (i + 3)..(Len(sql) - 1) :
                  /\ sql[j] = "}" /\ sql[j + 1] = "}"
                  /\ \A k \in (i + 2)..(j - 1) : sql[k] # " " }
  IN  IF i + 1 <= Len(sql) /\ sql[i] = "{" /\ sql[i + 1] = "{" /\ ends # {}
      THEN (CHOOSE j \in ends : \A k \in ends : j <= k) + 1
      ELSE 0

\* ReplaceAllStringFunc with the callback of namedQuery
RECURSIVE namedLoop(_, _, _, _, _, _)
RECURSIVE namedMatch(_, _, _, _, _, _, _)
RECURSIVE namedParam(_, _, _, _, _, _, _)
RECURSIVE namedValue(_, _, _, _, _, _, _)

namedLoop(sql, i, data_, cond, vals, err) ==
  IF i > Len(sql) THEN [cond |-> cond, vals |-> vals, err |-> err]
  ELSE namedMatch(sql, i, data_, cond, vals, err, searchHandleEnd(sql, i))

\* the text at i: e is the index of the last byte of the match, if any
namedMatch(sql, i, data_, cond, vals, err, e) ==
  IF e = 0 THEN namedLoop(sql, i + 1, data_, Append(cond, sql[i]), vals, err)
  ELSE namedParam(sql, e, data_, cond, vals, err,
                  TrimRight(TrimLeft(SubSeq(sql, i, e), "{"), "}"))

\* the callback on a match that ends at e and names paramName
namedParam(sql, e, data_, cond, vals, err, paramName) ==
  IF paramName \notin DOMAIN data_
  THEN namedLoop(sql, e + 1, data_, cond, vals, Str(paramName) \o " not found")
  ELSE namedValue(sql, e, data_, cond, vals, err, data_[paramName])

\* the callback on the value val of the parameter
namedValue(sql, e, data_, cond, vals, err, val) ==
  IF ~KindIsSlice(val)
  THEN namedLoop(sql, e + 1, data_, Append(cond, "?"), Append(vals, val), err)
  ELSE namedLoop(sql, e + 1, data_,
                 cond \o createMultiPlaceholders(Len(convertInterfaceToMap(val).vals)),
                 vals \o convertInterfaceToMap(val).vals, err)

\* namedQuery after the replacement
namedResult(r) ==
  IF r.err # "nil" THEN Fail(r.err) ELSE Result(r.cond, r.vals, "nil")

namedQuery(sql, data_) ==
  IF DOMAIN data_ = {} THEN Result(sql, <<>>, "nil")
  ELSE namedResult(namedLoop(sql, 1, data_, <<>>, <<>>, "nil"))

\* Builder.NamedQuery
NamedQuery(d, sql, data_) == finalizeResult(d, namedQuery(sql, data_))

(***************************************************************************)
(* JSON helpers (utils.go): the values are serialized into JSON_ARRAY,     *)
(* JSON_OBJECT and ? with the arguments of the placeholders.               *)
(***************************************************************************)
BoolV(b)   == [kind |-> "bool",   val |-> b]      \* bool
NilV       == [kind |-> "nil",    val |-> <<>>]   \* nil
ListV(l)   == [kind |-> "list",   val |-> l]      \* []interface{}
IntMapV(m) == [kind |-> "intmap", val |-> m]      \* map[int]interface{}
StructV    == [kind |-> "struct", val |-> <<>>]   \* struct{}

\* rValue.MapKeys() as the map yields them
unsortedMapKeys(m, ord) == RangeKeys(m, ord)

\* rValue.MapKeys() sorted by sort.Slice on the key strings
sortedMapKeys(m, ord) == defaultSortAlgorithm(RangeKeys(m, ord))

JsonFail(err) == [s |-> <<>>, vals |-> <<>>, err |-> err]

\* `if s[len(s)-1] == "," { s[len(s)-1] = ")" } else { s = append(s, ")") }`
closeJson(r) ==
  IF r.err # "nil" THEN r
  ELSE IF r.s[Len(r.s)] = ","
  THEN [s |-> SubSeq(r.s, 1, Len(r.s) - 1) \o << ")" >>, vals |-> r.vals, err |-> "nil"]
  ELSE [s |-> Append(r.s, ")"), vals |-> r.vals, err |-> "nil"]

RECURSIVE genJsonObj(_, _)
RECURSIVE genJsonArray(_, _, _, _, _)
RECURSIVE genJsonArrayElem(_, _, _, _, _, _)
RECURSIVE genJsonObject(_, _, _, _, _, _)
RECURSIVE genJsonObjectElem(_, _, _, _, _, _, _)

\* the loop of the case reflect.Array, reflect.Slice
genJsonArray(elems, i, s, vals, ord) ==
  IF i > Len(elems) THEN [s |-> s, vals |-> vals, err |-> "nil"]
  ELSE genJsonArrayElem(elems, i, s, vals, ord, genJsonObj(elems[i], ord))

genJsonArrayElem(elems, i, s, vals, ord, sub) ==
  IF sub.err # "nil" THEN JsonFail(sub.err)
  ELSE genJsonArray(elems, i + 1, s \o sub.s \o << "," >>, vals \o sub.vals, ord)

\* the loop of the case reflect.Map over the sorted keys
genJsonObject(m, keys, i, s, vals, ord) ==
  IF i > Len(keys) THEN [s |-> s, vals |-> vals, err |-> "nil"]
  ELSE genJsonObjectElem(m, keys, i, s, vals, ord, genJsonObj(m[keys[i]], ord))

genJsonObjectElem(m, keys, i, s, vals, ord, sub) ==
  IF sub.err # "nil" THEN JsonFail(sub.err)
  ELSE genJsonObject(m, keys, i + 1, s \o << "?", "," >> \o sub.s \o << "," >>,
                     Append(vals, StrV(keys[i])) \o sub.vals, ord)

genJsonObj(obj, ord) ==
  CASE obj.kind = "nil" -> [s |-> << "null" >>, vals |-> <<>>, err |-> "nil"]
    [] obj.kind = "list" ->
         closeJson(genJsonArray(obj.val, 1, << "JSON_ARRAY(" >>, <<>>, ord))
    [] obj.kind = "intmap" -> JsonFail("errUnsupportedJSONMapKey")
    [] obj.kind = "map" ->
         closeJson(genJsonObject(obj.val, sortedMapKeys(obj.val, ord), 1,
                                 << "JSON_OBJECT(" >>, <<>>, ord))
    [] obj.kind \in { "int", "str" } ->
         [s |-> << "?" >>, vals |-> << obj >>, err |-> "nil"]
    [] obj.kind = "bool" ->
         [s |-> << IF obj.val THEN "true" ELSE "false" >>, vals |-> <<>>, err |-> "nil"]
    [] OTHER -> JsonFail("errUnsupportedJSONType: " \o obj.kind)

RECURSIVE jsonPairs(_, _, _, _, _)
RECURSIVE jsonPairValue(_, _, _, _, _, _)

\* the loop of jsonUpdateCall over the pairs of a path and a value
jsonPairs(pathAndValuePair, i, buf, val, ord) ==
  IF i > Len(pathAndValuePair)
  THEN Cmp("rawSql", [sqlCond |-> Append(buf, ")"), values |-> val])
  ELSE IF pathAndValuePair[i].kind # "str"
  THEN Cmp("errorComparable", [err |-> "errInvalidJSONPathType"])
  ELSE IF TrimSpace(pathAndValuePair[i].val) = <<>>
  THEN Cmp("errorComparable", [err |-> "errInvalidJSONPathValue"])
  ELSE jsonPairValue(pathAndValuePair, i, buf \o << ",", "?", "," >>,
                     Append(val, StrV(TrimSpace(pathAndValuePair[i].val))), ord,
                     genJsonObj(pathAndValuePair[i + 1], ord))

jsonPairValue(pathAndValuePair, i, buf, val, ord, j) ==
  IF j.err # "nil" THEN Cmp("errorComparable", [err |-> j.err])
  ELSE jsonPairs(pathAndValuePair, i + 2, buf \o j.s, val \o j.vals, ord)

jsonUpdateCall(fn, field, pathAndValuePair, ord) ==
  IF Len(pathAndValuePair) = 0 \/ Len(pathAndValuePair) % 2 # 0
  THEN Cmp("rawSql", [sqlCond |-> field, values |-> <<>>])
  ELSE jsonPairs(pathAndValuePair, 1, field \o << "=", fn \o "(" >> \o field, <<>>, ord)

JsonSet(field, pathAndValuePair, ord) ==
  jsonUpdateCall("JSON_SET", field, pathAndValuePair, ord)

(***************************************************************************)
(* Builder construction and the *WithDialect entry points.                 *)
(***************************************************************************)
\* the *Builder that New returns with an error
NilBuilder == [dialect |-> "nil"]

\* a nil DialectProvider
NilProvider == [Dialect |-> "nil"]

normalizeDialect(dialect_) ==
  CASE Str(ToLower(TrimSpace(dialect_))) \in { "", DialectMySQL, "mariadb" } ->
         [dialect |-> DialectMySQL, err |-> "nil"]
    [] Str(ToLower(TrimSpace(dialect_)))
         \in { DialectPostgres, "postgresql", "supabase", "cockroachdb" } ->
         [dialect |-> DialectPostgres, err |-> "nil"]
    [] Str(ToLower(TrimSpace(dialect_))) \in { DialectSQLite, "sqlite3" } ->
         [dialect |-> DialectSQLite, err |-> "nil"]
    [] OTHER ->
         [dialect |-> "", err |-> "errUnsupportedDialect: " \o Str(dialect_)]

\* New after normalizeDialect returned n
newBuilder(n) ==
  IF n.err # "nil" THEN [builder |-> NilBuilder, err |-> n.err]
  ELSE [builder |-> [dialect |-> n.dialect], err |-> "nil"]

New(dialect_) == newBuilder(normalizeDialect(dialect_))

FromDB(db) ==
  IF db = NilProvider THEN [builder |-> NilBuilder, err |-> "errNilDialectProvider"]
  ELSE New(db.Dialect)

WithDialectForms ==
  { "BuildSelectWithDialect", "BuildUpdateWithDialect", "BuildDeleteWithDialect",
    "BuildInsertWithDialect", "BuildInsertIgnoreWithDialect",
    "BuildReplaceInsertWithDialect", "BuildInsertOnDuplicateWithDialect",
    "NamedQueryWithDialect" }

\* the method of builder b that the entry point form calls
builderCall(form, b, table, where_, selectField_, update_, data_, sql, namedData, ord) ==
  CASE form = "BuildSelectWithDialect" ->
         BuildSelect(b.dialect, table, where_, selectField_, ord)
    [] form = "BuildUpdateWithDialect" ->
         BuildUpdate(b.dialect, table, where_, update_, ord)
    [] form = "BuildDeleteWithDialect" ->
         BuildDelete(b.dialect, table, where_, ord)
    [] form = "BuildInsertWithDialect" ->
         BuildInsert(b.dialect, table, data_, ord)
    [] form = "BuildInsertIgnoreWithDialect" ->
         BuildInsertIgnore(b.dialect, table, data_, ord)
    [] form = "BuildReplaceInsertWithDialect" ->
         BuildReplaceInsert(b.dialect, table, data_, ord)
    [] form = "BuildInsertOnDuplicateWithDialect" ->
         BuildInsertOnDuplicate(b.dialect, table, data_, update_, ord)
    [] form = "NamedQueryWithDialect" ->
         NamedQuery(b.dialect, sql, namedData)

\* `b, err := New(dialect); if err != nil { return "", nil, err }; return b.M(...)`
withDialect(form, n, table, where_, selectField_, update_, data_, sql, namedData, ord) ==
  IF n.err # "nil" THEN Fail(n.err)
  ELSE builderCall(form, n.builder, table, where_, selectField_, update_, data_,
                   sql, namedData, ord)

(***************************************************************************)
(* Inputs of the model.                                                    *)
(***************************************************************************)
Table == << "t" >>

\* the number of entries a visiting order has to rank
OrdLen == IF MaxKeys > 2 THEN MaxKeys ELSE 2

Orders == Perms(OrdLen)

Map1(k, v)           == MapPut(<<>>, k, v)
Map2(k1, v1, k2, v2) == MapPut(Map1(k1, v1), k2, v2)

\* nested where maps used under "_or" and "_having"
NestC   == Map1(<< "c" >>, IntV(5))
NestD   == Map1(<< "d", " ", ">" >>, IntV(6))
NestCD  == Map2(<< "c" >>, IntV(5), << "d", " ", ">" >>, IntV(6))
NestDir == Map1(KeyLimit, IntV(1))

KeyOr     == << "_", "o", "r" >>
KeyCustom == << "_", "c", "u", "s", "t", "o", "m", "_", "x" >>

\* the candidate values of every key of a where map
KeyVals ==
  (<< "a" >> :>
     { IntV(1), SliceV(<< 1, 2 >>), RawV(<< "b", "+", "1" >>), NullV(IsNull) })
  @@ (<< "b" >> :> { IntV(2) })
  @@ (<< "a", " ", "i", "n" >> :> { IntV(1), SliceV(<<>>), SliceV(<< 3 >>) })
  @@ (<< "b", " ", "i", "n" >> :> { IntV(1), SliceV(<<>>), SliceV(<< 3, 4 >>) })
  @@ (<< "a", " ", "b", "e", "t", "w", "e", "e", "n" >> :>
     { SliceV(<<>>), SliceV(<< 1 >>), SliceV(<< 1, 2 >>) })
  @@ (<< "b", " ", "N", "O", "T", " ", " ", "B", "e", "t", "w", "e", "e", "n" >> :>
     { SliceV(<< 1, 2 >>), SliceV(<< 1, 2, 3 >>) })
  @@ (<< "a", " ", "l", "i", "k", "e" >> :> { StrV(<< "x", "%" >>) })
  @@ (<< "a", " ", "n", "u", "l", "l" >> :> { IntV(1) })
  @@ (<< "a", " ", "~" >> :> { IntV(1) })
  @@ (KeyOr :>
     { MapsV(<<>>), MapsV(<< AMap(<<>>) >>), MapsV(<< AMap(NestDir) >>),
       MapsV(<< AMap(NestC), AMap(NestD) >>),
       MapsV(<< AMap(NestCD), NilMap, AMap(NestC) >>) })
  @@ (KeyCustom :>
     { CmpV(Cmp("Between", Map1(<< "e" >>, << IntV(1) >>))),
       CmpV(Cmp("errorComparable", [err |-> "errInvalidJSONPathValue"])) })
  @@ (KeyLimit :> { IntV(2), SliceV(<< 1, 2 >>) })
  @@ (KeyGroupBy :> { StrV(<< "c" >>) })
  @@ (KeyHaving :>
     { MapV(Map1(<< "c", " ", ">" >>, IntV(1))),
       MapV(Map1(<< "c", " ", "l", "i", "k", "e" >>, StrV(<< "x", "%" >>))),
       MapV(Map2(<< " " >>, IntV(1), << "c", " ", "~" >>, IntV(1))) })

\* the keys of the where maps on which one call is made
WhereKeys == DOMAIN KeyVals \ { << "b", " ", "i", "n" >> }

\* the keys of the where maps on which the calls are repeated
RepeatKeys ==
  { << "a" >>, << "b" >>, << "a", " ", "i", "n" >>, << "b", " ", "i", "n" >>,
    KeyOr, KeyGroupBy, KeyHaving }

RECURSIVE MapsOver(_)
MapsOver(K) ==
  IF K = {} THEN { <<>> }
  ELSE LET k == CHOOSE x \in K : TRUE
       IN  { MapPut(m, k, v) : m \in MapsOver(K \ { k }), v \in KeyVals[k] }

WhereSpecsOver(Keys) ==
  UNION { MapsOver(K) : K \in { S \in SUBSET Keys : Cardinality(S) <= MaxKeys } }

WhereSpecs == WhereSpecsOver(WhereKeys)

\* the candidate values of the directive keys, next to one field key
DirectiveVals ==
  (<< "a" >> :> { IntV(1) })
  @@ (KeyOrderBy :> { StrV(<< "a", " ", "d", "e", "s", "c" >>) })
  @@ (KeyGroupBy :> { StrV(<< "c" >>), StrV(<< " " >>) })
  @@ (KeyHaving :>
     { MapV(Map1(<< "c", " ", ">" >>, IntV(1))),
       MapV(<<>>),
       MapV(Map1(KeyCustom, CmpV(Cmp("Eq", <<>>)))) })
  @@ (KeyLimit :>
     { IntV(0), IntV(2), SliceV(<< 0, 3 >>), SliceV(<< 1, 2 >>) })
  @@ (KeyLockMode :>
     { StrV(Share), StrV(Exclusive), StrV(<< " " >> \o Share \o << " " >>),
       StrV(<< "x" >>), IntV(1) })

RECURSIVE DirectiveMapsOver(_)
DirectiveMapsOver(K) ==
  IF K = {} THEN { <<>> }
  ELSE LET k == CHOOSE x \in K : TRUE
       IN  { MapPut(m, k, v) : m \in DirectiveMapsOver(K \ { k }),
                               v \in DirectiveVals[k] }

\* the where maps that combine the directives, whatever the number of keys
DirectiveSpecs == UNION { DirectiveMapsOver(K) : K \in SUBSET DOMAIN DirectiveVals }

\* where maps with an empty or a negated list, with a key that begins with
\* "_or", and with two keys of one field and one operator
ListSpecs ==
  { Map1(<< "a" >>, SliceV(<<>>)),
    Map1(<< "a", " ", "n", "o", "t", " ", "i", "n" >>, SliceV(<<>>)),
    Map1(<< "a", " ", "n", "o", "t", " ", "i", "n" >>, SliceV(<< 3, 4 >>)),
    Map2(<< "a" >>, SliceV(<<>>), << "a", " ", "i", "n" >>, SliceV(<< 1, 2 >>)),
    Map1(KeyCustom, CmpV(Cmp("In", Map1(<< "a" >>, <<>>)))),
    Map1(KeyCustom, CmpV(Cmp("In", Map1(<< "a" >>, << IntV(1), IntV(2) >>)))) }

PrefixSpecs ==
  { Map1(KeyOr, IntV(1)),
    Map1(<< "_", "o", "r", "i", "g", "i", "n" >>, IntV(1)),
    Map2(<< "a" >>, IntV(1), << "_", "o", "r", "d", "e", "r", "_", "i", "d" >>, IntV(2)) }

SameFieldSpecs ==
  { Map2(<< "a" >>, IntV(1), << "a", " ", "=" >>, IntV(2)),
    Map2(<< "a" >>, IntV(1), << " ", "a" >>, IntV(2)),
    Map2(<< "a" >>, IntV(1), << "a", " ", ">" >>, IntV(2)),
    Map1(<< "a", " ", ">" >>, NullV(IsNull)),
    Map2(<< "a" >>, NullV(IsNull), << "a", " ", "!", "=" >>, NullV(IsNotNull)),
    Map2(<< "a" >>, NullV(IsNull), << "b" >>, NullV(IsNotNull)) }

\* the strings given as "_orderby", in and outside the grammar of a term
OrderByStrings ==
  { << "t", ".", "a" >>,
    << BQ, "a", BQ, " ", "A", "S", "C" >>,
    << "a", ",", "b", " ", " ", "d", "e", "s", "c" >>,
    << BQ, "a", ";", "b", BQ >>,
    << "a", ";", "b" >>,
    << "a", "," >>,
    << "1", "a" >>,
    << "a", " ", "a", "s", "c", " ", "d", "e", "s", "c" >>,
    << " " >>,
    <<>> }

\* the strings given as "_groupby"
GroupByStrings ==
  { << "t", ".", "c", ",", "d" >>,
    << "c", " ", "d", "e", "s", "c" >>,
    << "c", ";", "d" >>,
    << "c", "," >>,
    <<>> }

\* the where maps with one field and a value of "_orderby", of "_groupby"
\* or of "_having" that is a string, a Raw or of another type
ClauseSpecs ==
  { Map2(<< "a" >>, IntV(1), KeyOrderBy, v) :
      v \in { StrV(s) : s \in OrderByStrings }
            \cup { RawV(<< "r", "(", ")", " " >>), RawV(<< " " >>), IntV(1) } }
  \cup
  { Map2(<< "a" >>, IntV(1), KeyGroupBy, v) :
      v \in { StrV(s) : s \in GroupByStrings }
            \cup { RawV(<< "r", "(", ")", " " >>), RawV(<< " " >>), IntV(1) } }
  \cup
  { MapPut(Map2(<< "a" >>, IntV(1), KeyGroupBy, StrV(<< "c" >>)), KeyHaving, IntV(1)) }

\* the where maps given next to the combinations of keys
ExtraSpecs == ListSpecs \cup PrefixSpecs \cup SameFieldSpecs \cup ClauseSpecs

SelectFields == { <<>>, << << "i", "d" >>, << "n", "a", "m", "e" >> >> }

UpdateSpecs ==
  { Map1(<< "x" >>, IntV(1)),
    Map2(<< "x" >>, RawV(<< "x", "+", "1" >>), << "y" >>, IntV(2)) }

Row(id, name) == Map2(<< "i", "d" >>, IntV(id), << "n", "a", "m", "e" >>, IntV(name))

RowSets ==
  { <<>>,
    << Row(1, 7) >>,
    << Row(1, 7), Row(2, 8) >>,
    << Row(1, 7), Map1(<< "i", "d" >>, IntV(2)) >>,
    << Row(1, 7), MapPut(Row(2, 8), << "z" >>, IntV(9)) >> }

ConflictSets == { <<>>, << << "i", "d" >> >>, << << " " >> >> }

InsertUpdates == { <<>>, Map1(<< "n", "a", "m", "e" >>, IntV(9)) }

Templates ==
  { << "a", "=", "{", "{", "i", "d", "}", "}", " ", "b", " ", "I", "N", " ",
       "{", "{", "s", "s", "}", "}" >>,
    << "{", "{", "i", "d", "}", "}", ",", "{", "{", "i", "d", "}", "}" >>,
    << "a", "=", "{", "{", "x", "}", "}" >>,
    << "a", "=", "1" >> }

DataMaps ==
  { <<>>,
    Map1(<< "i", "d" >>, IntV(7)),
    Map2(<< "i", "d" >>, IntV(7), << "s", "s" >>, SliceV(<< 1, 2 >>)),
    Map2(<< "i", "d" >>, IntV(7), << "s", "s" >>, SliceV(<<>>)) }

ValueLists == { <<>>, << IntV(1) >>, << IntV(1), IntV(2) >>, << IntV(1), IntV(2), IntV(3) >> }

Nodes ==
  { Cmp(t, m) : t \in { "Between", "NotBetween" },
                m \in { Map1(<< "a" >>, v) : v \in ValueLists }
                      \cup { Map2(<< "a" >>, v, << "b" >>, w) :
                               v \in ValueLists, w \in ValueLists } }

\* the dialect strings given to New, FromDB and the *WithDialect forms
DialectNames ==
  { << "m", "y", "s", "q", "l" >>,
    << "M", "y", "S", "Q", "L" >>,
    << " ", "m", "a", "r", "i", "a", "d", "b", " " >>,
    << "p", "o", "s", "t", "g", "r", "e", "s" >>,
    << "P", "o", "s", "t", "g", "r", "e", "S", "Q", "L" >>,
    << "s", "u", "p", "a", "b", "a", "s", "e" >>,
    << "c", "o", "c", "k", "r", "o", "a", "c", "h", "d", "b" >>,
    << "s", "q", "l", "i", "t", "e" >>,
    << "s", "q", "l", "i", "t", "e", "3" >>,
    <<>>,
    << " " >>,
    << "o", "r", "a", "c", "l", "e" >>,
    << "m", "y", " ", "s", "q", "l" >> }

\* the where maps given to the *WithDialect forms
DialectWheres ==
  { Map1(<< "a" >>, IntV(1)), Map1(<< "a", " ", "~" >>, IntV(1)) }

\* the where maps the concurrent callers share: filters, a list, a directive
\* and a map that is refused
ConcurrentWheres ==
  { <<>>,
    Map1(<< "a" >>, IntV(1)),
    Map2(<< "a" >>, IntV(1), << "b" >>, StrV(<< "x" >>)),
    Map1(<< "a", " ", "i", "n" >>, SliceV(<< 1, 2 >>)),
    Map2(<< "a" >>, IntV(1), KeyOrderBy, StrV(<< "a" >>)),
    Map1(<< "a", " ", "~" >>, IntV(1)) }


\* the scalars, and the values of unsupported types, inside a JSON value
JsonLeaves == { IntV(1), BoolV(TRUE), NilV, StructV }

\* the maps from the keys K to the values V
MapsFrom(K, V) == [K -> V]

\* the JSON values given to JsonSet: scalars, sequences and string-keyed
\* mappings of them, nested ones, and values of unsupported types
JsonValues ==
  JsonLeaves \cup { StrV(<< "s" >>), BoolV(FALSE), IntMapV(<<>>) }
  \cup { ListV(l) : l \in { <<>> } \cup { << v >> : v \in JsonLeaves }
                        \cup { << v, w >> : v, w \in JsonLeaves } }
  \cup { MapV(m) : m \in { <<>> }
                       \cup MapsFrom({ << "b" >> }, JsonLeaves)
                       \cup MapsFrom({ << "b" >>, << "a" >> }, JsonLeaves) }
  \cup { MapV(Map2(<< "b" >>, ListV(<< IntV(1), MapV(Map2(<< "z" >>, IntV(2),
                                                       << "y" >>, IntV(3))) >>),
                   << "a" >>, MapV(Map2(<< "d" >>, BoolV(TRUE), << "c" >>, StrV(<< "s" >>))))),
         ListV(<< MapV(Map1(<< "k" >>, IntMapV(<<>>))) >>),
         MapV(Map2(<< "b" >>, IntV(1), << "a" >>, ListV(<< StructV >>))) }

JsonPath == << "$", ".", "p" >>

\* the field given to JsonSet
JsonField == << "f" >>

\* the path and value pairs given to JsonSet
JsonPairs ==
  { << StrV(JsonPath), v >> : v \in JsonValues }
  \cup { << StrV(JsonPath), IntV(1), StrV(<< "$", ".", "q" >>),
            MapV(Map2(<< "b" >>, IntV(2), << "a" >>, IntV(3))) >>,
         << StrV(<< " " >>), IntV(1) >>,
         << IntV(1), IntV(1) >>,
         << StrV(JsonPath) >>,
         <<>> }


NoResult == Result(<<>>, <<>>, "none")

(***************************************************************************)
(* The state machine: inputs are supplied, then one operation is called    *)
(* on them, and called once more on the same inputs.                       *)
(***************************************************************************)
InitCall ==
  /\ calls = 0 /\ op = "none" /\ res = NoResult /\ prev = NoResult

\* no builder is constructed yet
NoBuilder == "none"

InitWhere(specs) ==
  /\ family = "where"
  /\ dialect \in Dialects
  /\ where \in specs
  /\ update = <<>> /\ rows = <<>> /\ conflict = <<>>
  /\ tmpl = <<>> /\ data = <<>> /\ node = Cmp("nilComparable", <<>>)

InitInsert ==
  /\ family = "insert"
  /\ dialect \in Dialects
  /\ rows \in RowSets /\ conflict \in ConflictSets /\ update \in InsertUpdates
  /\ where = <<>> /\ tmpl = <<>> /\ data = <<>>
  /\ node = Cmp("nilComparable", <<>>)

InitNamed ==
  /\ family = "named"
  /\ dialect \in Dialects
  /\ tmpl \in Templates /\ data \in DataMaps
  /\ where = <<>> /\ update = <<>> /\ rows = <<>> /\ conflict = <<>>
  /\ node = Cmp("nilComparable", <<>>)

InitNode ==
  /\ family = "node"
  /\ dialect = DialectMySQL
  /\ node \in Nodes
  /\ where = <<>> /\ update = <<>> /\ rows = <<>> /\ conflict = <<>>
  /\ tmpl = <<>> /\ data = <<>>

\* the inputs of New, FromDB and the *WithDialect forms
InitDialect ==
  /\ family = "dialect"
  /\ alias \in DialectNames
  /\ dialect = NoBuilder
  /\ where \in DialectWheres
  /\ update = Map1(<< "x" >>, IntV(1))
  /\ rows \in { <<>>, << Row(1, 7) >> }
  /\ conflict = <<>>
  /\ tmpl = << "a", "=", "{", "{", "i", "d", "}", "}" >>
  /\ data \in { <<>>, Map1(<< "i", "d" >>, IntV(7)) }
  /\ node = Cmp("nilComparable", <<>>)
  /\ pairs = <<>>

\* the inputs of an UPDATE that sets a JSON field with JsonSet
InitJson ==
  /\ family = "json"
  /\ alias = <<>>
  /\ dialect \in { DialectMySQL, DialectPostgres }
  /\ pairs \in JsonPairs
  /\ where = Map1(<< "a" >>, IntV(1))
  /\ update = <<>> /\ rows = <<>> /\ conflict = <<>>
  /\ tmpl = <<>> /\ data = <<>> /\ node = Cmp("nilComparable", <<>>)

\* every operation, called once
Init ==
  /\ InitCall
  /\ selectField = <<>> /\ threads = <<>>
  /\ again = FALSE
  /\ \/ /\ alias = <<>> /\ pairs = <<>>
        /\ (InitWhere(WhereSpecs \cup DirectiveSpecs \cup ExtraSpecs) \/ InitInsert \/ InitNamed \/ InitNode)
     \/ InitDialect
     \/ InitJson

\* the operations that range over maps, called twice on the same inputs
InitRepeat ==
  /\ InitCall
  /\ selectField = <<>> /\ threads = <<>>
  /\ again = TRUE
  /\ alias = <<>> /\ pairs = <<>>
  /\ (InitWhere(WhereSpecsOver(RepeatKeys)) \/ InitInsert)

\* the bookkeeping of a call of operation name that returns r
Returns(name, r) ==
  /\ calls < (IF again THEN 2 ELSE 1)
  /\ calls = 1 => op = name
  /\ calls' = calls + 1
  /\ op' = name
  /\ prev' = res
  /\ res' = r

CallBuildSelect ==
  /\ family = "where"
  /\ \E sf \in (IF calls = 0 THEN SelectFields ELSE { selectField }), ord \in Orders :
       /\ selectField' = sf
       /\ Returns("BuildSelect", BuildSelect(dialect, Table, where, sf, ord))
  /\ UNCHANGED << alias, dialect, family, where, update, rows, conflict, tmpl, data, node, pairs, threads, again >>

CallBuildUpdate ==
  /\ family = "where"
  /\ \E u \in (IF calls = 0 THEN UpdateSpecs ELSE { update }), ord \in Orders :
       /\ update' = u
       /\ Returns("BuildUpdate", BuildUpdate(dialect, Table, where, u, ord))
  /\ UNCHANGED << alias, dialect, family, where, selectField, rows, conflict, tmpl, data, node, pairs, threads, again >>

CallBuildDelete ==
  /\ family = "where"
  /\ \E ord \in Orders :
       Returns("BuildDelete", BuildDelete(dialect, Table, where, ord))
  /\ UNCHANGED << alias, dialect, family, where, selectField, update, rows, conflict,
                  tmpl, data, node, pairs, threads, again >>

CallBuildInsert ==
  /\ family = "insert"
  /\ \E ord \in Orders :
       Returns("BuildInsert", BuildInsert(dialect, Table, rows, ord))
  /\ UNCHANGED << alias, dialect, family, where, selectField, update, rows, conflict,
                  tmpl, data, node, pairs, threads, again >>

CallBuildInsertIgnore ==
  /\ family = "insert"
  /\ \E ord \in Orders :
       Returns("BuildInsertIgnore", BuildInsertIgnore(dialect, Table, rows, ord))
  /\ UNCHANGED << alias, dialect, family, where, selectField, update, rows, conflict,
                  tmpl, data, node, pairs, threads, again >>

CallBuildReplaceInsert ==
  /\ family = "insert"
  /\ \E ord \in Orders :
       Returns("BuildReplaceInsert", BuildReplaceInsert(dialect, Table, rows, ord))
  /\ UNCHANGED << alias, dialect, family, where, selectField, update, rows, conflict,
                  tmpl, data, node, pairs, threads, again >>

CallBuildInsertOnDuplicate ==
  /\ family = "insert"
  /\ \E ord \in Orders :
       Returns("BuildInsertOnDuplicate",
               BuildInsertOnDuplicate(dialect, Table, rows, update, ord))
  /\ UNCHANGED << alias, dialect, family, where, selectField, update, rows, conflict,
                  tmpl, data, node, pairs, threads, again >>

CallBuildUpsert ==
  /\ family = "insert"
  /\ \E ord \in Orders :
       Returns("BuildUpsert", BuildUpsert(dialect, Table, rows, conflict, update, ord))
  /\ UNCHANGED << alias, dialect, family, where, selectField, update, rows, conflict,
                  tmpl, data, node, pairs, threads, again >>

CallNamedQuery ==
  /\ family = "named"
  /\ Returns("NamedQuery", NamedQuery(dialect, tmpl, data))
  /\ UNCHANGED << alias, dialect, family, where, selectField, update, rows, conflict,
                  tmpl, data, node, pairs, threads, again >>

\* Build called on a condition node: the fragments and the values
CallBuild ==
  /\ family = "node"
  /\ \E ord \in Orders :
       \E b \in { BuildC(node, ord) } :
         Returns("Build", Result(b.cons, b.vals, "nil"))
  /\ UNCHANGED << alias, dialect, family, where, selectField, update, rows, conflict,
                  tmpl, data, node, pairs, threads, again >>

\* New(alias): the builder the later calls would be made on
CallNew ==
  /\ family = "dialect"
  /\ \E n \in { New(alias) } :
       /\ dialect' = (IF n.err = "nil" THEN n.builder.dialect ELSE dialect)
       /\ Returns("New", Fail(n.err))
  /\ UNCHANGED << alias, family, where, selectField, update, rows, conflict,
                  tmpl, data, node, pairs, threads, again >>

\* FromDB on a nil provider or on a provider whose Dialect() is alias
CallFromDB ==
  /\ family = "dialect"
  /\ \E db \in { NilProvider, [Dialect |-> alias] } :
       \E n \in { FromDB(db) } :
         /\ dialect' = (IF n.err = "nil" THEN n.builder.dialect ELSE dialect)
         /\ Returns(IF db = NilProvider THEN "FromDB(nil)" ELSE "FromDB", Fail(n.err))
  /\ UNCHANGED << alias, family, where, selectField, update, rows, conflict,
                  tmpl, data, node, pairs, threads, again >>

\* one of the *WithDialect entry points, called with the dialect string alias:
\* the call is made on the builder n that New(alias) returns
CallWithDialect ==
  /\ family = "dialect"
  /\ \E form \in WithDialectForms, ord \in Orders :
       \E n \in { New(alias) } :
         /\ dialect' = (IF n.err = "nil" THEN n.builder.dialect ELSE dialect)
         /\ Returns(form, withDialect(form, n, Table, where, selectField, update,
                                     rows, tmpl, data, ord))
  /\ UNCHANGED << alias, family, where, selectField, update, rows, conflict,
                  tmpl, data, node, pairs, threads, again >>

\* BuildUpdate with the update map {"_custom_x": JsonSet("f", pairs...)}
CallJsonSet ==
  /\ family = "json"
  /\ \E ord \in Orders, o \in Orders :
       \E u \in { Map1(KeyCustom, CmpV(JsonSet(JsonField, pairs, ord))) } :
         /\ update' = u
         /\ Returns("JsonSet", BuildUpdate(dialect, Table, where, u, o))
  /\ UNCHANGED << alias, dialect, family, where, selectField, rows, conflict, tmpl,
                  data, node, pairs, threads, again >>

Next ==
  \/ CallJsonSet
  \/ CallNew
  \/ CallFromDB
  \/ CallWithDialect
  \/ CallBuildSelect
  \/ CallBuildUpdate
  \/ CallBuildDelete
  \/ CallBuildInsert
  \/ CallBuildInsertIgnore
  \/ CallBuildReplaceInsert
  \/ CallBuildInsertOnDuplicate
  \/ CallBuildUpsert
  \/ CallNamedQuery
  \/ CallBuild

Spec == Init /\ [][Next]_vars

NextRepeat ==
  \/ CallBuildSelect
  \/ CallBuildUpdate
  \/ CallBuildDelete
  \/ CallBuildInsert
  \/ CallBuildInsertIgnore
  \/ CallBuildReplaceInsert
  \/ CallBuildInsertOnDuplicate
  \/ CallBuildUpsert

SpecRepeat == InitRepeat /\ [][NextRepeat]_vars

(***************************************************************************)
(* Concurrent calls on one builder.  Each thread is a goroutine that calls *)
(* a builder method with the same where map, the same update map and the   *)
(* same select-field slice as the others, without synchronisation.  A call *)
(* of BuildSelect is split at its accesses to the slice: the loop of       *)
(* buildSelect over ufields, then strings.Join.                            *)
(***************************************************************************)
Threads == 1..2

\* the result of a call ended by the report of a data race
RaceReport == Fail("fatal: DATA RACE")

\* a goroutine that has not called yet
IdleThread ==
  [pc |-> "idle", op |-> "none", ord |-> << >>, i |-> 0,
   read |-> {}, wrote |-> {}, res |-> NoResult]

\* the values a read of cell i of the slice can give while another goroutine
\* stores quoteField(ufields[i]) in it: the one before or the one after
racyRead(ufields, i) == { ufields[i], quoteField(ufields[i]) }

\* whether an access of thread t to cell i conflicts with an access of
\* another goroutine: two accesses of one cell, one of them a write
conflicts(t, i, writing) ==
  \E u \in Threads \ { t } :
    \/ i \in threads[u].wrote
    \/ writing /\ i \in threads[u].read

\* the slices strings.Join can read while other goroutines store in the cells
racyReadAll(ufields) ==
  { s \in [1..Len(ufields) -> UNION { racyRead(ufields, i) : i \in 1..Len(ufields) }] :
      \A i \in 1..Len(ufields) : s[i] \in racyRead(ufields, i) }

InitConcurrent ==
  /\ InitCall
  /\ again = FALSE
  /\ family = "concurrent"
  /\ alias = <<>> /\ pairs = <<>>
  /\ dialect \in Dialects
  /\ where \in ConcurrentWheres
  /\ selectField \in SelectFields
  /\ update = Map1(<< "x" >>, IntV(1))
  /\ rows = <<>> /\ conflict = <<>>
  /\ tmpl = <<>> /\ data = <<>> /\ node = Cmp("nilComparable", <<>>)
  /\ threads = [t \in Threads |-> IdleThread]

\* BuildSelect up to the call of buildSelect: r is what the call returns
\* when the loop over ufields has nothing to do
enterSelect(t, r, ord) ==
  threads' = [threads EXCEPT ![t] =
    IF r.err # "nil" \/ Len(selectField) = 0
    THEN [@ EXCEPT !.pc = "done", !.op = "BuildSelect", !.ord = ord, !.res = r]
    ELSE [@ EXCEPT !.pc = "quote", !.op = "BuildSelect", !.ord = ord, !.i = 1]]

ThreadBuildSelect(t) ==
  /\ family = "concurrent"
  /\ threads[t].pc = "idle"
  /\ \E ord \in Orders :
       \E r \in { BuildSelect(dialect, Table, where, <<>>, ord) } :
         enterSelect(t, r, ord)
  /\ UNCHANGED << alias, dialect, family, where, selectField, update, rows, conflict,
                  tmpl, data, node, pairs, again, calls, op, res, prev >>

\* one iteration of the loop of buildSelect:
\* ufields[i] = quoteField(ufields[i])
ThreadQuoteField(t) ==
  /\ family = "concurrent"
  /\ threads[t].pc = "quote"
  /\ \E v \in racyRead(selectField, threads[t].i) :
       \/ /\ selectField' = [selectField EXCEPT ![threads[t].i] = quoteField(v)]
          /\ threads' = [threads EXCEPT ![t] =
               [@ EXCEPT !.pc = IF threads[t].i = Len(selectField) THEN "join" ELSE "quote",
                         !.i = @ + 1,
                         !.read = @ \cup { threads[t].i },
                         !.wrote = @ \cup { threads[t].i }]]
       \/ /\ conflicts(t, threads[t].i, TRUE)
          /\ selectField' = selectField
          /\ threads' = [threads EXCEPT ![t] =
               [@ EXCEPT !.pc = "done", !.res = RaceReport]]
  /\ UNCHANGED << alias, dialect, family, where, update, rows, conflict,
                  tmpl, data, node, pairs, again, calls, op, res, prev >>

\* the rest of buildSelect: strings.Join(ufields, ",") and the statement
ThreadJoin(t) ==
  /\ family = "concurrent"
  /\ threads[t].pc = "join"
  /\ \/ \E s \in racyReadAll(selectField) :
          \E r \in { BuildSelect(dialect, Table, where, s, threads[t].ord) } :
            threads' = [threads EXCEPT ![t] =
              [@ EXCEPT !.pc = "done", !.res = r,
                        !.read = @ \cup (1..Len(selectField))]]
     \/ /\ \E i \in 1..Len(selectField) : conflicts(t, i, FALSE)
        /\ threads' = [threads EXCEPT ![t] =
             [@ EXCEPT !.pc = "done", !.res = RaceReport]]
  /\ UNCHANGED << alias, dialect, family, where, selectField, update, rows, conflict,
                  tmpl, data, node, pairs, again, calls, op, res, prev >>

ThreadBuildUpdate(t) ==
  /\ family = "concurrent"
  /\ threads[t].pc = "idle"
  /\ \E ord \in Orders :
       \E r \in { BuildUpdate(dialect, Table, where, update, ord) } :
         threads' = [threads EXCEPT ![t] =
           [@ EXCEPT !.pc = "done", !.op = "BuildUpdate", !.ord = ord, !.res = r]]
  /\ UNCHANGED << alias, dialect, family, where, selectField, update, rows, conflict,
                  tmpl, data, node, pairs, again, calls, op, res, prev >>

ThreadBuildDelete(t) ==
  /\ family = "concurrent"
  /\ threads[t].pc = "idle"
  /\ \E ord \in Orders :
       \E r \in { BuildDelete(dialect, Table, where, ord) } :
         threads' = [threads EXCEPT ![t] =
           [@ EXCEPT !.pc = "done", !.op = "BuildDelete", !.ord = ord, !.res = r]]
  /\ UNCHANGED << alias, dialect, family, where, selectField, update, rows, conflict,
                  tmpl, data, node, pairs, again, calls, op, res, prev >>

NextConcurrent ==
  \E t \in Threads :
    \/ ThreadBuildSelect(t)
    \/ ThreadQuoteField(t)
    \/ ThreadJoin(t)
    \/ ThreadBuildUpdate(t)
    \/ ThreadBuildDelete(t)

SpecConcurrent == InitConcurrent /\ [][NextConcurrent]_vars

(***************************************************************************)
(* Properties of the builders.                                             *)
(***************************************************************************)
\* the numbered placeholders a text of n chunks can hold
Dollars(n) == { "$" \o ToString(k) : k \in 0..n }

\* the placeholders of a text, read left to right
Placeholders(sql) ==
  SelectSeq(sql, LAMBDA c : c = "?" \/ c \in Dollars(Len(sql)))

\* the number of placeholders of dialect d in a text
PlaceholderCount(d, sql) ==
  Len(SelectSeq(sql, LAMBDA c : IF d = DialectPostgres
                                THEN c \in Dollars(Len(sql))
                                ELSE c = "?"))

\* a text with every numbered placeholder written back as ?
Unbind(sql) ==
  [i \in 1..Len(sql) |-> IF sql[i] \in Dollars(Len(sql)) THEN "?" ELSE sql[i]]

\* s ends with t
IsSuffix(t, s) ==
  Len(t) <= Len(s) /\ SubSeq(s, Len(s) - Len(t) + 1, Len(s)) = t

\* the keys of a where map that name a field
FieldKeys(w) ==
  { k \in DOMAIN w :
      k \notin defaultIgnoreKeys /\ ~HasPrefix(k, PrefixOr) /\ ~HasPrefix(k, PrefixCustom) }

\* the operator token of key k of map w, case folded, inner spaces collapsed
OperatorToken(w, k) == ToLower(splitKey(k, w[k]).operator)

\* C1: every successful call of a statement builder or of NamedQuery, in every
\* dialect, returns as many placeholders (? for MySQL and SQLite, $n for
\* PostgreSQL) as arguments.
C1_PlaceholderParity ==
  (calls >= 1 /\ family # "node" /\ res.err = "nil")
    => PlaceholderCount(dialect, res.sql) = Len(res.args)

\* a limited PostgreSQL UPDATE over an OR group: SET, WHERE and LIMIT arguments
C1_Witness ==
  /\ calls = 1 /\ op = "BuildUpdate" /\ dialect = DialectPostgres
  /\ res.err = "nil"
  /\ KeyOr \in DOMAIN where /\ KeyLimit \in DOMAIN where
  /\ Len(res.args) >= 4

\* C2: a PostgreSQL builder returns no ?, and its placeholders read left to
\* right are $1..$n with n the number of arguments; for a SELECT without a
\* limit or a lock (whose clauses are the dialect's own) the text is the MySQL text with
\* the placeholders numbered, the arguments the same; MySQL and SQLite builders
\* return ? placeholders and no numbered one.
C2_PostgresRebind ==
  (calls >= 1 /\ family # "node" /\ res.err = "nil")
    => IF dialect = DialectPostgres
       THEN /\ \A i \in 1..Len(res.sql) : res.sql[i] # "?"
            /\ Placeholders(res.sql)
                 = [k \in 1..Len(res.args) |-> "$" \o ToString(k)]
            /\ (op = "BuildSelect" /\ KeyLimit \notin DOMAIN where
                  /\ KeyLockMode \notin DOMAIN where) =>
                 \E ord \in Orders :
                   LET m == BuildSelect(DialectMySQL, Table, where, selectField, ord)
                   IN  m.err = "nil" /\ m.sql = Unbind(res.sql) /\ m.args = res.args
       ELSE /\ \A i \in 1..Len(res.sql) : res.sql[i] \notin Dollars(Len(res.sql))
            /\ Placeholders(res.sql) = [k \in 1..Len(res.args) |-> "?"]

\* a PostgreSQL named query with a scalar and a two-element sequence
C2_Witness ==
  /\ calls = 1 /\ op = "NamedQuery" /\ dialect = DialectPostgres
  /\ res.err = "nil"
  /\ Placeholders(res.sql) = << "$1", "$2", "$3" >>
  /\ Len(res.args) = 3

\* C3: two successful builds with the same dialect and inputs return the same
\* text and the same arguments whatever order the maps are visited in; the
\* keys of one operator, and the fields of a row, render in lexicographic
\* order with their values in the same order.
C3_Determinism ==
  /\ (calls = 2 /\ res.err = "nil" /\ prev.err = "nil")
       => (res.sql = prev.sql /\ res.args = prev.args)
  /\ (calls >= 1 /\ op = "BuildDelete" /\ res.err = "nil"
        /\ DOMAIN where = { << "a" >>, << "b" >> }
        /\ where[<< "a" >>].kind = "int")
       => /\ Str(Unbind(res.sql)) = "DELETE FROM t WHERE (a=? AND b=?)"
          /\ res.args = << where[<< "a" >>], where[<< "b" >>] >>
  /\ (calls >= 1 /\ op = "BuildInsert" /\ res.err = "nil" /\ rows = << Row(1, 7) >>)
       => /\ Str(Unbind(res.sql)) = "INSERT INTO t (id,name) VALUES (?,?)"
          /\ res.args = << IntV(1), IntV(7) >>

\* two successful SELECTs over two keys of the operator =
C3_Witness ==
  /\ calls = 2 /\ op = "BuildSelect"
  /\ res.err = "nil" /\ prev.err = "nil"
  /\ DOMAIN where = { << "a" >>, << "b" >> }
  /\ where[<< "a" >>].kind = "int"
  /\ res.args = << IntV(1), IntV(2) >>

\* C4: the same call on the same inputs returns the same text, arguments and
\* error every time, also when the inputs hold more than one defect.
C4_PureFunction ==
  calls = 2 => res = prev

\* two calls on two IN keys, one not a sequence and one empty, that return
\* different errors
C4_Witness ==
  /\ calls = 2
  /\ DOMAIN where = { << "a", " ", "i", "n" >>, << "b", " ", "i", "n" >> }
  /\ prev.err = "errWhereInterfaceSliceType:in"
  /\ res.err = "errEmptySliceCondition:in"

\* two calls on a _having map with two invalid keys that return different errors
C4_HavingWitness ==
  /\ calls = 2 /\ op = "BuildSelect"
  /\ DOMAIN where = { KeyGroupBy, KeyHaving }
  /\ prev.err = "errSplitEmptyKey"
  /\ res.err = "errHavingUnsupportedOperator"

\* the operator suffixes a field key may carry
SupportedSuffixes ==
  { opEq, opNe1, opNe2, opGt, opGte, opLt, opLte, opLike, opNotLike, opIn,
    opNotIn, opBetween, opNotBetween }

\* the where map holds field keys only, one of them with an unsupported token
HasUnsupportedToken(w) ==
  /\ DOMAIN w = FieldKeys(w)
  /\ \E k \in DOMAIN w : OperatorToken(w, k) \notin SupportedSuffixes

\* C5: a where map of field keys, one of which carries an operator token that
\* is none of the supported suffixes, makes BuildSelect, BuildUpdate and
\* BuildDelete return ErrUnsupportedOperator and no text.
C5_UnsupportedOperator ==
  (calls >= 1 /\ family = "where" /\ HasUnsupportedToken(where))
    => (res.err = "ErrUnsupportedOperator" /\ res.sql = <<>>)

\* the key "a null" with an integer value is accepted and its filter dropped
C5_Witness ==
  /\ calls = 1 /\ op = "BuildDelete"
  /\ where = Map1(<< "a", " ", "n", "u", "l", "l" >>, IntV(1))
  /\ res.err = "nil"
  /\ Str(res.sql) = "DELETE FROM t"
  /\ res.args = <<>>

\* the keys of a where map with operator between or not between whose value
\* list does not hold two elements
BadBetweenKeys(w) ==
  { k \in FieldKeys(w) :
      /\ OperatorToken(w, k) \in { opBetween, opNotBetween }
      /\ w[k].kind = "slice"
      /\ Len(w[k].val) # 2 }

ExpectedBetweenFragments(c) ==
  LET ks == SetToSeq(DOMAIN c.with)
  IN  [i \in 1..Len(ks) |->
         IF Len(c.with[ks[i]]) = 2
         THEN << "(" >> \o ks[i]
              \o << IF c.type = "NotBetween" THEN " NOT BETWEEN " ELSE " BETWEEN ",
                    "?", " AND ", "?", ")" >>
         ELSE << "(1=0)" >>]

\* the values of a Between or NotBetween node
ExpectedBetweenValues(c) ==
  LET ks == SetToSeq(DOMAIN c.with)
  IN  Flatten([i \in 1..Len(ks) |->
         IF Len(c.with[ks[i]]) = 2 THEN c.with[ks[i]] ELSE <<>>])

\* C7: Build on a Between or NotBetween node renders every field whose value
\* list does not hold exactly two elements as (1=0) with no argument, and every
\* other field as (f BETWEEN ? AND ?) or (f NOT BETWEEN ? AND ?) with its two
\* values; a node spliced in through a _custom_ key renders the same way.
C7_BetweenFailsClosed ==
  /\ (calls >= 1 /\ family = "node")
       => /\ res.sql = ExpectedBetweenFragments(node)
          /\ res.args = ExpectedBetweenValues(node)
  /\ (calls >= 1 /\ op = "BuildDelete" /\ DOMAIN where = { KeyCustom }
        /\ where[KeyCustom].val.type = "Between")
       => /\ res.err = "nil"
          /\ Str(res.sql) = "DELETE FROM t WHERE ((1=0))"
          /\ res.args = <<>>

\* a node with one malformed field and one well-formed field
C7_Witness ==
  /\ calls = 1 /\ op = "Build"
  /\ node.type = "NotBetween"
  /\ DOMAIN node.with = { << "a" >>, << "b" >> }
  /\ Len(node.with[<< "a" >>]) = 3 /\ Len(node.with[<< "b" >>]) = 2
  /\ res.sql[1] = << "(1=0)" >>
  /\ res.args = << IntV(1), IntV(2) >>

\* an _or value that is an empty list, or holds only nested where maps
\* without a field key
IsEmptyGroup(v) ==
  /\ v.kind = "maps"
  /\ \A i \in 1..Len(v.val) : ~v.val[i].isNil /\ FieldKeys(v.val[i].m) = {}
  /\ \A i \in 1..Len(v.val) : DOMAIN v.val[i].m \subseteq defaultIgnoreKeys

\* the text holds an empty pair of parentheses
HasEmptyParens(sql) ==
  \E i \in 1..(Len(sql) - 1) : sql[i] = "(" /\ sql[i + 1] = ")"

\* the text holds a connective next to an empty operand
HasDanglingConnective(sql) ==
  \E i \in 1..Len(sql) :
    /\ sql[i] \in { " AND ", " OR " }
    /\ \/ i = 1 \/ i = Len(sql)
       \/ sql[i - 1] = "(" \/ sql[i + 1] = ")"

\* C8: a where map whose _or value is an empty list, or holds only empty or
\* directive-only nested maps, builds a text with no () in it and no AND / OR
\* next to an empty operand.
C8_EmptyGroupRendersNothing ==
  (calls >= 1 /\ family = "where" /\ res.err = "nil"
     /\ KeyOr \in DOMAIN where /\ IsEmptyGroup(where[KeyOr]))
    => (~HasEmptyParens(res.sql) /\ ~HasDanglingConnective(res.sql))

\* a SELECT whose only key is _or with an empty list renders WHERE ()
C8_Witness ==
  /\ calls = 1 /\ op = "BuildSelect" /\ selectField = <<>>
  /\ where = Map1(KeyOr, MapsV(<<>>))
  /\ res.err = "nil"
  /\ Str(res.sql) = "SELECT * FROM t WHERE ()"

\* the map order in which the nested maps are compiled on their own
IdOrder == [i \in 1..OrdLen |-> i]

\* where map w compiled on its own into one parenthesized AND group
Compiled(w) ==
  whereConnector("AND", getWhereConditions(w, defaultIgnoreKeys, IdOrder).conds,
                 IdOrder)

\* the nested maps of an _or value that are not nil
Groups(v) == SelectSeq(v.val, LAMBDA g : ~g.isNil)

\* an _or value with at least one nested map, each holding field keys only
IsFullGroup(v) ==
  /\ v.kind = "maps"
  /\ Groups(v) # <<>>
  /\ \A i \in 1..Len(v.val) :
       ~v.val[i].isNil =>
         (DOMAIN v.val[i].m # {} /\ FieldKeys(v.val[i].m) = DOMAIN v.val[i].m)

\* the text of the where clause of map w: the OR group, then the other keys
ExpectedOrClause(w) ==
  LET gs   == Groups(w[KeyOr])
      rest == Compiled([k \in DOMAIN w \ { KeyOr } |-> w[k]]).s
  IN  << " WHERE ", "(", "(" >>
      \o Join([i \in 1..Len(gs) |-> Compiled(gs[i].m).s], << " OR " >>)
      \o << ")", " AND " >> \o SubSeq(rest, 2, Len(rest))

\* the arguments of the where clause of map w, in nested-map order
ExpectedOrValues(w) ==
  LET gs == Groups(w[KeyOr])
  IN  Flatten([i \in 1..Len(gs) |-> Compiled(gs[i].m).vals])
      \o Compiled([k \in DOMAIN w \ { KeyOr } |-> w[k]]).vals

\* C9: for a where map with _or = [s1..sn], each si a non-empty where map, and
\* other field keys with supported operators, a successful build ends with the
\* clause
\* WHERE ((s1 OR ... OR sn) AND others): each si compiled on its own into a
\* parenthesized AND group; the arguments end with those of s1..sn in that
\* order, then those of the other keys (nil entries of the list are skipped).
C9_OrComposes ==
  (calls >= 1 /\ family = "where" /\ res.err = "nil"
     /\ KeyOr \in DOMAIN where /\ IsFullGroup(where[KeyOr])
     /\ FieldKeys(where) = DOMAIN where \ { KeyOr } /\ FieldKeys(where) # {}
     /\ \A k \in FieldKeys(where) : OperatorToken(where, k) \in SupportedSuffixes)
    => /\ IsSuffix(ExpectedOrClause(where), Unbind(res.sql))
       /\ IsSuffix(ExpectedOrValues(where), res.args)

\* a PostgreSQL SELECT over _or = [{c: 5}, {"d >": 6}] and a = 1
C9_Witness ==
  /\ calls = 1 /\ op = "BuildSelect" /\ dialect = DialectPostgres
  /\ selectField = <<>>
  /\ where = Map2(KeyOr, MapsV(<< AMap(NestC), AMap(NestD) >>), << "a" >>, IntV(1))
  /\ Str(res.sql) = "SELECT * FROM t WHERE (((c=$1) OR (d>$2)) AND a=$3)"
  /\ res.args = << IntV(5), IntV(6), IntV(1) >>

\* the operators of a _having map that are not comparisons
NonComparison == { opIn, opNotIn, opLike, opNotLike, opBetween, opNotBetween }

\* C10: a SELECT with _groupby and a _having map one of whose keys carries the
\* operator in, not in, like, not like, between or not between returns
\* errHavingUnsupportedOperator and no text.
C10_HavingComparisonOnly ==
  (calls >= 1 /\ op = "BuildSelect"
     /\ DOMAIN where = { KeyGroupBy, KeyHaving }
     /\ where[KeyHaving].kind = "map"
     /\ \E k \in DOMAIN where[KeyHaving].val :
          OperatorToken(where[KeyHaving].val, k) \in NonComparison)
    => (res.err = "errHavingUnsupportedOperator" /\ res.sql = <<>>)

\* a SELECT grouped by c with _having {"c like": "x%"} builds a HAVING clause
C10_Witness ==
  /\ calls = 1 /\ op = "BuildSelect" /\ dialect = DialectMySQL
  /\ selectField = <<>>
  /\ DOMAIN where = { KeyGroupBy, KeyHaving }
  /\ res.err = "nil"
  /\ Str(res.sql) = "SELECT * FROM t GROUP BY c HAVING (c LIKE ?)"
  /\ res.args = << StrV(<< "x", "%" >>) >>


\* the index of the first chunk c of a text, or 0
IndexOf(sql, c) ==
  IF \E i \in 1..Len(sql) : sql[i] = c
  THEN CHOOSE i \in 1..Len(sql) : sql[i] = c /\ \A j \in 1..(i - 1) : sql[j] # c
  ELSE 0

\* map m without key k
Without(m, k) == [x \in (DOMAIN m) \ { k } |-> m[x]]

\* the chunks that open the clauses after HAVING
ClauseStarts ==
  { " ORDER BY ", " LIMIT ", " LOCK IN SHARE MODE", " FOR UPDATE", " FOR SHARE" }

\* the arguments of the conditions of a where map
ConditionArgs(w, ord) ==
  whereConnector("AND", getWhereConditions(w, defaultIgnoreKeys, ord).conds, ord).vals

\* the offset and the count a "_limit" value stands for
LimitOffset(v) == IF v.kind = "slice" /\ Len(v.val) = 2 THEN v.val[1] ELSE 0
LimitCount(v)  == IF v.kind = "slice" THEN v.val[Len(v.val)] ELSE v.val

\* the two arguments of the LIMIT clause of a SELECT in dialect d
SelectLimitArgs(d, w) ==
  IF KeyLimit \notin DOMAIN w THEN <<>>
  ELSE IF d = DialectMySQL
  THEN << IntV(LimitOffset(w[KeyLimit])), IntV(LimitCount(w[KeyLimit])) >>
  ELSE << IntV(LimitCount(w[KeyLimit])), IntV(LimitOffset(w[KeyLimit])) >>

\* C11: a successful BuildSelect emits HAVING only after an emitted GROUP BY;
\* "_having" without "_groupby" changes neither the text nor the arguments;
\* an emitted HAVING is followed by a non-empty condition text; WHERE comes
\* before GROUP BY; and the arguments are those of WHERE, then of HAVING, then
\* of LIMIT.
C11_HavingAfterGroupBy ==
  (calls >= 1 /\ op = "BuildSelect" /\ res.err = "nil") =>
    LET g == IndexOf(res.sql, " GROUP BY ")
        h == IndexOf(res.sql, " HAVING ")
        w == IndexOf(res.sql, " WHERE ")
    IN  /\ h > 0 => (g > 0 /\ g < h)
        /\ (w > 0 /\ g > 0) => w < g
        /\ (KeyHaving \in DOMAIN where /\ KeyGroupBy \notin DOMAIN where) =>
             \E ord \in Orders :
               res = BuildSelect(dialect, Table, Without(where, KeyHaving),
                                 selectField, ord)
        /\ h > 0 => (h < Len(res.sql) /\ res.sql[h + 1] \notin ClauseStarts)
        /\ h > 0 =>
             \E ord \in Orders :
               res.args = ConditionArgs(where, ord)
                            \o ConditionArgs(where[KeyHaving].val, ord)
                            \o SelectLimitArgs(dialect, where)

\* a grouped SELECT whose "_having" holds only a custom condition over no
\* field: HAVING is emitted and nothing follows it
C11_Witness ==
  /\ calls = 1 /\ op = "BuildSelect" /\ res.err = "nil"
  /\ KeyGroupBy \in DOMAIN where /\ KeyHaving \in DOMAIN where
  /\ where[KeyHaving] = MapV(Map1(KeyCustom, CmpV(Cmp("Eq", <<>>))))
  /\ IndexOf(res.sql, " HAVING ") = Len(res.sql)

\* a grouped SELECT with conditions on both sides of the sentinel and a limit
C11_SplitWitness ==
  /\ calls = 1 /\ op = "BuildSelect" /\ res.err = "nil"
  /\ IndexOf(res.sql, " WHERE ") > 0
  /\ IndexOf(res.sql, " HAVING ") > IndexOf(res.sql, " GROUP BY ")
  /\ IndexOf(res.sql, " HAVING ") < Len(res.sql)
  /\ Len(res.args) = 4

\* the parts of C11 other than the non-empty text: HAVING only after GROUP BY,
\* WHERE before GROUP BY, "_having" without "_groupby" changes nothing, and
\* the arguments in clause order
C11_ClauseOrder ==
  (calls >= 1 /\ op = "BuildSelect" /\ res.err = "nil") =>
    LET g == IndexOf(res.sql, " GROUP BY ")
        h == IndexOf(res.sql, " HAVING ")
        w == IndexOf(res.sql, " WHERE ")
    IN  /\ h > 0 => (g > 0 /\ g < h)
        /\ (w > 0 /\ g > 0) => w < g
        /\ (KeyHaving \in DOMAIN where /\ KeyGroupBy \notin DOMAIN where) =>
             \E ord \in Orders :
               res = BuildSelect(dialect, Table, Without(where, KeyHaving),
                                 selectField, ord)
        /\ h > 0 =>
             \E ord \in Orders :
               res.args = ConditionArgs(where, ord)
                            \o ConditionArgs(where[KeyHaving].val, ord)
                            \o SelectLimitArgs(dialect, where)

\* the last n elements of a sequence, the whole of a shorter one
LastN(s, n) == IF Len(s) <= n THEN s ELSE SubSeq(s, Len(s) - n + 1, Len(s))

\* C12: a successful BuildSelect with "_limit" = (offset, count), a single
\* value n standing for (0, n), renders LIMIT ?,? with the arguments
\* (offset, count) on MySQL and LIMIT ? OFFSET ? with the arguments
\* (count, offset) on PostgreSQL and SQLite (numbered on PostgreSQL); the two
\* limit arguments are the last two of the argument list.
C12_SelectLimit ==
  (calls >= 1 /\ op = "BuildSelect" /\ res.err = "nil" /\ KeyLimit \in DOMAIN where) =>
    LET i      == IndexOf(res.sql, " LIMIT ")
        n      == Len(res.args)
        offset == IntV(LimitOffset(where[KeyLimit]))
        count  == IntV(LimitCount(where[KeyLimit]))
    IN  /\ i > 0 /\ i + 3 <= Len(res.sql) /\ n >= 2
        /\ CASE dialect = DialectMySQL ->
                  /\ SubSeq(res.sql, i, i + 3) = << " LIMIT ", "?", ",", "?" >>
                  /\ LastN(res.args, 2) = << offset, count >>
             [] dialect = DialectSQLite ->
                  /\ SubSeq(res.sql, i, i + 3) = << " LIMIT ", "?", " OFFSET ", "?" >>
                  /\ LastN(res.args, 2) = << count, offset >>
             [] dialect = DialectPostgres ->
                  /\ SubSeq(res.sql, i, i + 3)
                       = << " LIMIT ", "$" \o ToString(n - 1),
                            " OFFSET ", "$" \o ToString(n) >>
                  /\ LastN(res.args, 2) = << count, offset >>

\* a PostgreSQL SELECT with a condition and the pair (1, 2): count 2 and
\* offset 1 are bound to $2 and $3
C12_Witness ==
  /\ calls = 1 /\ op = "BuildSelect" /\ res.err = "nil"
  /\ dialect = DialectPostgres
  /\ KeyLimit \in DOMAIN where /\ where[KeyLimit] = SliceV(<< 1, 2 >>)
  /\ Len(res.args) = 3
  /\ LastN(res.args, 2) = << IntV(2), IntV(1) >>

\* the errors a "_limit" value can cause
LimitErrors ==
  { "errLimitValueType", "errLimitValueLength", "errLimitType",
    "errLimitOffsetNotSupported" }

\* the "_limit" of where map w is a pair with a non-zero first element
HasOffsetPair(w) ==
  /\ KeyLimit \in DOMAIN w
  /\ w[KeyLimit].kind = "slice" /\ Len(w[KeyLimit].val) = 2
  /\ w[KeyLimit].val[1] > 0

\* C13: with a "_limit" pair whose first element is non-zero, BuildUpdate and
\* BuildDelete return errLimitOffsetNotSupported and no SQL in every dialect,
\* while BuildSelect accepts the pair: it fails only where it fails without
\* the "_limit" key, and on success it binds the pair as offset and count.
C13_LimitAsymmetry ==
  (calls >= 1 /\ family = "where" /\ HasOffsetPair(where)) =>
    IF op \in { "BuildUpdate", "BuildDelete" }
    THEN res = Fail("errLimitOffsetNotSupported")
    ELSE /\ res.err \notin LimitErrors
         /\ \E ord \in Orders :
              BuildSelect(dialect, Table, Without(where, KeyLimit),
                          selectField, ord).err = res.err
         /\ res.err = "nil" =>
              { IntV(where[KeyLimit].val[1]), IntV(where[KeyLimit].val[2]) }
                = { LastN(res.args, 2)[k] : k \in 1..2 }

\* a SQLite BuildDelete refused for the pair (1, 2) that BuildSelect takes
C13_Witness ==
  /\ calls = 1 /\ op = "BuildDelete" /\ dialect = DialectSQLite
  /\ HasOffsetPair(where)
  /\ res.err = "errLimitOffsetNotSupported"
  /\ \E ord \in Orders :
       BuildSelect(dialect, Table, where, <<>>, ord).err = "nil"

\* the statement res of a BuildUpdate or BuildDelete is row-limited to n: the
\* native trailing LIMIT on MySQL, the row-identifier subquery elsewhere, with
\* the arguments of SET, then of WHERE, then n
IsRowLimited(n) ==
  LET k == IndexOf(res.sql, " IN (")
      m == Len(res.sql)
      a == Len(res.args)
  IN  /\ a >= 1 /\ m >= 3
      /\ IF dialect = DialectMySQL
         THEN LastN(res.sql, 2) = << " LIMIT ", "?" >>
         ELSE /\ LastN(res.sql, 3)
                   = << " LIMIT ",
                        IF dialect = DialectPostgres THEN "$" \o ToString(a) ELSE "?",
                        ")" >>
              /\ k > 2 /\ k + 4 <= m
              /\ SubSeq(res.sql, k - 2, k + 4)
                   = << " WHERE " >> \o limitIdentifier(dialect)
                       \o << " IN (", "SELECT " >> \o limitIdentifier(dialect)
                       \o << " FROM " >> \o quoteField(Table)
      /\ \E ord \in Orders :
           res.args = (IF op = "BuildUpdate" THEN resolveUpdate(update, ord).vals ELSE <<>>)
                        \o ConditionArgs(where, ord) \o << IntV(n) >>

\* C14: every successful BuildUpdate or BuildDelete whose where map holds an
\* accepted "_limit" count n, 0 included, returns a row-limited statement
\* whose last argument is n.
C14_LimitedUpdateDelete ==
  (calls >= 1 /\ op \in { "BuildUpdate", "BuildDelete" } /\ res.err = "nil"
     /\ KeyLimit \in DOMAIN where)
    => IsRowLimited(LimitCount(where[KeyLimit]))

\* a BuildDelete with a condition and "_limit" 0 that returns the unlimited
\* DELETE: no LIMIT clause and no limit argument
C14_Witness ==
  /\ calls = 1 /\ op = "BuildDelete" /\ res.err = "nil"
  /\ KeyLimit \in DOMAIN where /\ LimitCount(where[KeyLimit]) = 0
  /\ << "a" >> \in DOMAIN where
  /\ IndexOf(res.sql, " LIMIT ") = 0
  /\ IndexOf(res.sql, " WHERE ") > 0
  /\ Len(res.args) = 1

\* C14 for the counts other than 0: the statement is row-limited
C14_PositiveCount ==
  (calls >= 1 /\ op \in { "BuildUpdate", "BuildDelete" } /\ res.err = "nil"
     /\ KeyLimit \in DOMAIN where /\ LimitCount(where[KeyLimit]) > 0)
    => IsRowLimited(LimitCount(where[KeyLimit]))

\* a limited PostgreSQL UPDATE with a condition: SET, WHERE and count arguments
C14_PositiveWitness ==
  /\ calls = 1 /\ op = "BuildUpdate" /\ res.err = "nil"
  /\ dialect = DialectPostgres
  /\ KeyLimit \in DOMAIN where /\ LimitCount(where[KeyLimit]) = 3
  /\ IndexOf(res.sql, " IN (") > 0
  /\ Len(res.args) = 3

\* the lock clause of mode m in dialect d
ExpectedLock(d, m) ==
  IF m = Exclusive THEN " FOR UPDATE"
  ELSE IF d = DialectMySQL THEN " LOCK IN SHARE MODE" ELSE " FOR SHARE"

\* the call returned the statement locked as mode m asks, the lock clause last
EndsWithLock(m) ==
  /\ res.sql # <<>>
  /\ res.sql[Len(res.sql)] = ExpectedLock(dialect, m)
  /\ IndexOf(res.sql, ExpectedLock(dialect, m)) = Len(res.sql)

\* the call returned an error and no statement
Refused == res.err # "nil" /\ res.sql = <<>> /\ res.args = <<>>

\* C15 (amended): in BuildSelect a "_lockMode" that reads "share" or
\* "exclusive" once the white space around it is trimmed makes every
\* successful MySQL or PostgreSQL call end with LOCK IN SHARE MODE / FOR UPDATE
\* (MySQL) or FOR SHARE / FOR UPDATE (PostgreSQL); any other value on MySQL or
\* PostgreSQL, and any "_lockMode" on SQLite, returns an error and no
\* statement.
C15_LockClause ==
  (calls >= 1 /\ op = "BuildSelect" /\ KeyLockMode \in DOMAIN where) =>
    LET v == where[KeyLockMode]
    IN  IF /\ v.kind = "str" /\ dialect # DialectSQLite
           /\ TrimSpace(v.val) \in { Share, Exclusive }
        THEN res.err = "nil" => EndsWithLock(TrimSpace(v.val))
        ELSE Refused

\* C15 as claimed: only the strings "share" and "exclusive" themselves are
\* lock modes, and every other string is refused.
C15_LockClauseExact ==
  (calls >= 1 /\ op = "BuildSelect" /\ KeyLockMode \in DOMAIN where) =>
    LET v == where[KeyLockMode]
    IN  IF /\ v.kind = "str" /\ dialect # DialectSQLite
           /\ v.val \in { Share, Exclusive }
        THEN res.err = "nil" => EndsWithLock(v.val)
        ELSE Refused

\* a MySQL SELECT with a limit and the lock mode " share ": the lock clause
\* follows the LIMIT clause
C15_Witness ==
  /\ calls = 1 /\ op = "BuildSelect" /\ res.err = "nil"
  /\ dialect = DialectMySQL
  /\ KeyLockMode \in DOMAIN where
  /\ where[KeyLockMode] = StrV(<< " " >> \o Share \o << " " >>)
  /\ KeyLimit \in DOMAIN where
  /\ LastN(res.sql, 5) = << " LIMIT ", "?", ",", "?", " LOCK IN SHARE MODE" >>

\* a SQLite SELECT refused for the lock mode "share"
C15_RefusedWitness ==
  /\ calls = 1 /\ op = "BuildSelect" /\ dialect = DialectSQLite
  /\ KeyLockMode \in DOMAIN where /\ where[KeyLockMode] = StrV(Share)
  /\ Refused

\* the features a dialect can lack
Features == { "BuildReplaceInsert", "BuildInsertOnDuplicate", "_lockMode" }

\* the call returned the typed feature-unsupported-for-dialect error, which
\* is not the error of an invalid lock mode, and no statement
TypedUnsupported ==
  /\ res.err \in { unsupportedFeature(dialect, f) : f \in Features }
  /\ res.err # lockClause(DialectMySQL, << "x" >>).err
  /\ res.sql = <<>> /\ res.args = <<>>

\* C16: REPLACE of rows on PostgreSQL, INSERT-ON-DUPLICATE on PostgreSQL and
\* SQLite, and a "_lockMode" string on SQLite each return the typed
\* feature-unsupported-for-dialect error, which differs from the error of an
\* invalid lock mode on MySQL and PostgreSQL, and no SQL.
C16_TypedCapabilityErrors ==
  calls >= 1 =>
    /\ (op = "BuildReplaceInsert" /\ dialect = DialectPostgres /\ rows # <<>>)
         => TypedUnsupported
    /\ (op = "BuildInsertOnDuplicate" /\ dialect # DialectMySQL)
         => TypedUnsupported
    /\ (op = "BuildSelect" /\ dialect = DialectSQLite
          /\ KeyLockMode \in DOMAIN where /\ where[KeyLockMode].kind = "str")
         => TypedUnsupported

\* a SQLite SELECT with the lock mode "share" that returns the error of an
\* invalid lock mode
C16_Witness ==
  /\ calls = 1 /\ op = "BuildSelect" /\ dialect = DialectSQLite
  /\ where = Map1(KeyLockMode, StrV(Share))
  /\ res.err = "errNotAllowedLockMode"
  /\ res.err = lockClause(DialectPostgres, << "x" >>).err

\* the INSERT part of C16: REPLACE of rows on PostgreSQL and
\* INSERT-ON-DUPLICATE outside MySQL return the typed error and no SQL
C16_InsertCapability ==
  calls >= 1 =>
    /\ (op = "BuildReplaceInsert" /\ dialect = DialectPostgres /\ rows # <<>>)
         => TypedUnsupported
    /\ (op = "BuildInsertOnDuplicate" /\ dialect # DialectMySQL)
         => TypedUnsupported

\* a PostgreSQL REPLACE of two rows refused with the typed error
C16_InsertWitness ==
  /\ calls = 1 /\ op = "BuildReplaceInsert" /\ dialect = DialectPostgres
  /\ Len(rows) = 2
  /\ res = Fail(unsupportedFeature(DialectPostgres, "BuildReplaceInsert"))

\* the values of the rows rs in row order, each row in the lexicographic
\* order of the fields of the first row
RowArgs(rs) ==
  Flatten([i \in 1..Len(rs) |->
             [j \in 1..Cardinality(DOMAIN rs[1]) |-> rs[i][SetToSeq(DOMAIN rs[1])[j]]]])

\* the values of an update map in the lexicographic order of its keys
UpdateArgs(u) ==
  [j \in 1..Cardinality(DOMAIN u) |-> u[SetToSeq(DOMAIN u)[j]]]

\* C17: BuildUpsert with a non-empty update map and no conflict column
\* returns errEmptyConflictColumns on PostgreSQL and SQLite; on MySQL, where
\* the plain INSERT of the rows succeeds, it returns that INSERT followed by
\* ON DUPLICATE KEY UPDATE with the row values then the update values as
\* arguments, and where the INSERT fails it returns the INSERT's error; the
\* MySQL result is the same for every conflict-column list.
C17_UpsertBranching ==
  (calls >= 1 /\ op = "BuildUpsert" /\ DOMAIN update # {}) =>
    IF dialect # DialectMySQL
    THEN conflict = <<>> => res = Fail("errEmptyConflictColumns")
    ELSE /\ \E ord \in Orders :
              \E i \in { BuildInsert(DialectMySQL, Table, rows, ord) } :
                IF i.err # "nil" THEN res = Fail(i.err)
                ELSE /\ res.err = "nil"
                     /\ res.sql[1] = "INSERT INTO"
                     /\ SubSeq(res.sql, 1, Len(i.sql) + 1)
                          = i.sql \o << " ON DUPLICATE KEY UPDATE " >>
                     /\ Len(res.sql) > Len(i.sql) + 1
                     /\ res.args = RowArgs(rows) \o UpdateArgs(update)
         /\ \A c \in ConflictSets : \E ord \in Orders :
              BuildUpsert(dialect, Table, rows, c, update, ord) = res

\* a MySQL upsert of two rows with an update and no conflict column
C17_Witness ==
  /\ calls = 1 /\ op = "BuildUpsert" /\ dialect = DialectMySQL
  /\ conflict = <<>> /\ DOMAIN update # {} /\ Len(rows) = 2
  /\ res.err = "nil"
  /\ IndexOf(res.sql, " ON DUPLICATE KEY UPDATE ") > 0
  /\ Len(res.args) = 5

\* the same upsert on PostgreSQL, refused for its empty conflict columns
C17_PostgresWitness ==
  /\ calls = 1 /\ op = "BuildUpsert" /\ dialect = DialectPostgres
  /\ conflict = <<>> /\ DOMAIN update # {} /\ Len(rows) = 2
  /\ res = Fail("errEmptyConflictColumns")

\* C18 (amended): BuildUpsert with an empty update map returns what
\* BuildInsertIgnore returns on the same dialect, table and rows when the
\* dialect is MySQL or no conflict column is given; on PostgreSQL and SQLite
\* with conflict columns it returns BuildInsertIgnore's error when that one
\* fails, errEmptyConflictColumns when a column is blank, and otherwise
\* BuildInsertIgnore's statement and arguments with the conflict target
\* written between ON CONFLICT and DO NOTHING.
C18_UpsertDegrades ==
  (calls >= 1 /\ op = "BuildUpsert" /\ DOMAIN update = {}) =>
    \E ord \in Orders :
      \E g \in { BuildInsertIgnore(dialect, Table, rows, ord) } :
        IF dialect = DialectMySQL \/ conflict = <<>> THEN res = g
        ELSE IF g.err # "nil" THEN res = Fail(g.err)
        ELSE IF \E k \in 1..Len(conflict) : TrimSpace(conflict[k]) = <<>>
        THEN res = Fail("errEmptyConflictColumns")
        ELSE /\ res.err = "nil"
             /\ res.args = g.args
             /\ g.sql[Len(g.sql)] = " ON CONFLICT DO NOTHING"
             /\ res.sql = SubSeq(g.sql, 1, Len(g.sql) - 1)
                            \o << " ON CONFLICT ", "(" >>
                            \o Join([k \in 1..Len(conflict) |-> TrimSpace(conflict[k])],
                                    << "," >>)
                            \o << ")", " DO NOTHING" >>

\* C18 as claimed: BuildUpsert with an empty update map returns what
\* BuildInsertIgnore returns, whatever the conflict columns.
C18_UpsertIsInsertIgnore ==
  (calls >= 1 /\ op = "BuildUpsert" /\ DOMAIN update = {}) =>
    \E ord \in Orders : res = BuildInsertIgnore(dialect, Table, rows, ord)

\* a PostgreSQL upsert of one row with the conflict column id and no update:
\* the statement names the conflict target
C18_Witness ==
  /\ calls = 1 /\ op = "BuildUpsert" /\ dialect = DialectPostgres
  /\ DOMAIN update = {} /\ conflict = << << "i", "d" >> >> /\ Len(rows) = 1
  /\ res.err = "nil"
  /\ LastN(res.sql, 6) = << " ON CONFLICT ", "(", "i", "d", ")", " DO NOTHING" >>
  /\ Len(res.args) = 2

\* a SQLite upsert of two rows with no conflict column and no update, equal
\* to the INSERT that ignores conflicts
C18_SameWitness ==
  /\ calls = 1 /\ op = "BuildUpsert" /\ dialect = DialectSQLite
  /\ DOMAIN update = {} /\ conflict = <<>> /\ Len(rows) = 2
  /\ res.err = "nil"
  /\ res.sql[Len(res.sql)] = " ON CONFLICT DO NOTHING"

\* the operations that insert the rows
InsertOps ==
  { "BuildInsert", "BuildInsertIgnore", "BuildReplaceInsert",
    "BuildInsertOnDuplicate", "BuildUpsert" }

\* the errors that are returned before the rows are read
BeforeRows ==
  { unsupportedFeature(dialect, f) : f \in Features } \cup { "errEmptyConflictColumns" }

\* C19: when a row's field set differs from the first row's, by a missing or
\* by an extra field, every INSERT builder and BuildUpsert returns an error
\* and no SQL, and the error is errInsertDataNotMatch unless the dialect or
\* the conflict columns are refused first; on success the arguments start
\* with the row values in row order, each row in the lexicographic order of
\* the first row's fields.
C19_SameFieldSet ==
  (calls >= 1 /\ op \in InsertOps /\ rows # <<>>) =>
    IF \E i \in 1..Len(rows) : DOMAIN rows[i] # DOMAIN rows[1]
    THEN /\ Refused
         /\ res.err \in { "errInsertDataNotMatch" } \cup BeforeRows
    ELSE res.err = "nil" =>
           /\ Len(res.args) >= Len(RowArgs(rows))
           /\ SubSeq(res.args, 1, Len(RowArgs(rows))) = RowArgs(rows)
           /\ op \in { "BuildInsert", "BuildInsertIgnore", "BuildReplaceInsert" }
                => res.args = RowArgs(rows)

\* a BuildInsert of two rows, the second with a field z the first row lacks,
\* that succeeds and binds the values of id and name only
C19_Witness ==
  /\ calls = 1 /\ op = "BuildInsert" /\ res.err = "nil"
  /\ Len(rows) = 2
  /\ << "z" >> \in DOMAIN rows[2] /\ << "z" >> \notin DOMAIN rows[1]
  /\ Len(res.args) = 4
  /\ \A k \in 1..Len(res.args) : res.args[k] # rows[2][<< "z" >>]

\* C19 for a missing field: when a row lacks a field of the first row the
\* call returns an error and no SQL, errInsertDataNotMatch unless the dialect
\* or the conflict columns are refused first; on success the arguments start
\* with the row values in row order and sorted field order
C19_MissingField ==
  (calls >= 1 /\ op \in InsertOps /\ rows # <<>>) =>
    IF \E i \in 1..Len(rows) : ~(DOMAIN rows[1] \subseteq DOMAIN rows[i])
    THEN /\ Refused
         /\ res.err \in { "errInsertDataNotMatch" } \cup BeforeRows
    ELSE res.err = "nil" =>
           /\ Len(res.args) >= Len(RowArgs(rows))
           /\ SubSeq(res.args, 1, Len(RowArgs(rows))) = RowArgs(rows)

\* a SQLite BuildInsertIgnore of two rows, the second without the field name
C19_MissingWitness ==
  /\ calls = 1 /\ op = "BuildInsertIgnore" /\ dialect = DialectSQLite
  /\ Len(rows) = 2 /\ << "n", "a", "m", "e" >> \notin DOMAIN rows[2]
  /\ res = Fail("errInsertDataNotMatch")

\* a parenthesized comma-joined group of n placeholders
PlaceholderGroup(n) ==
  << "(" >> \o [k \in 1..(IF n = 0 THEN 0 ELSE 2 * n - 1) |->
                  IF k % 2 = 1 THEN "?" ELSE ","]
    \o << ")" >>

\* the name of the token of template sql that starts at i and ends at e
TokenName(sql, i, e) == SubSeq(sql, i + 2, e - 2)

\* every token of the template names a key of the value mapping
AllNamesKnown(sql, d) ==
  \A i \in 1..Len(sql) :
    searchHandleEnd(sql, i) > 0 => TokenName(sql, i, searchHandleEnd(sql, i)) \in DOMAIN d

\* the expansion of the template from index i on: the text with ? for a
\* scalar and a group for a sequence, and the values in scan order
RECURSIVE NamedExpansion(_, _, _)
NamedExpansion(sql, i, d) ==
  IF i > Len(sql) THEN [text |-> <<>>, vals |-> <<>>]
  ELSE LET e == searchHandleEnd(sql, i)
       IN  IF e = 0
           THEN LET rest == NamedExpansion(sql, i + 1, d)
                IN  [text |-> << sql[i] >> \o rest.text, vals |-> rest.vals]
           ELSE LET rest == NamedExpansion(sql, e + 1, d)
                    v    == d[TokenName(sql, i, e)]
                IN  IF v.kind = "slice"
                    THEN [text |-> PlaceholderGroup(Len(v.val)) \o rest.text,
                          vals |-> [k \in 1..Len(v.val) |-> IntV(v.val[k])] \o rest.vals]
                    ELSE [text |-> << "?" >> \o rest.text,
                          vals |-> << v >> \o rest.vals]

\* the result is the expansion of the template, rebound for the dialect
IsNamedExpansion ==
  /\ res.err = "nil"
  /\ Unbind(res.sql) = NamedExpansion(tmpl, 1, data).text
  /\ res.args = NamedExpansion(tmpl, 1, data).vals
  /\ Placeholders(res.sql)
       = [k \in 1..Len(res.args) |->
            IF dialect = DialectPostgres THEN "$" \o ToString(k) ELSE "?"]

\* C20: NamedQuery on a template whose tokens all name keys of the value
\* mapping replaces each token, left to right, by ? for a scalar and by a
\* parenthesized comma-joined group of n placeholders for a sequence of length
\* n, n >= 0, appends the values in scan order, once per reference, and rebinds
\* the text for the dialect.
C20_NamedExpansion ==
  (calls >= 1 /\ op = "NamedQuery" /\ AllNamesKnown(tmpl, data)) => IsNamedExpansion

\* a named query whose token ss names an empty sequence: the token is
\* replaced by nothing, and the text ends with "IN "
C20_Witness ==
  /\ calls = 1 /\ op = "NamedQuery" /\ res.err = "nil"
  /\ << "s", "s" >> \in DOMAIN data /\ data[<< "s", "s" >>] = SliceV(<<>>)
  /\ IndexOf(tmpl, "s") > 0
  /\ LastN(res.sql, 3) = << "I", "N", " " >>
  /\ Len(res.args) = 1

\* C20 for the mappings without an empty sequence
C20_NonEmptySequences ==
  (calls >= 1 /\ op = "NamedQuery" /\ AllNamesKnown(tmpl, data)
     /\ \A k \in DOMAIN data : data[k].kind = "slice" => Len(data[k].val) > 0)
    => IsNamedExpansion

\* a PostgreSQL named query with a scalar and a two-element sequence
C20_GroupWitness ==
  /\ calls = 1 /\ op = "NamedQuery" /\ dialect = DialectPostgres
  /\ res.err = "nil"
  /\ LastN(res.sql, 5) = << "(", "$2", ",", "$3", ")" >>
  /\ res.args = << IntV(7), IntV(1), IntV(2) >>

\* a named query that references the name id twice and binds its value twice
C20_TwiceWitness ==
  /\ calls = 1 /\ op = "NamedQuery" /\ res.err = "nil"
  /\ Unbind(res.sql) = << "?", ",", "?" >>
  /\ res.args = << IntV(7), IntV(7) >>

\* the text holds a {{name}} token
HasToken(sql) == \E i \in 1..Len(sql) : searchHandleEnd(sql, i) > 0

\* C21: NamedQuery on a template with a {{name}} token whose name is not a
\* key of the value mapping, the empty mapping included, returns an error and
\* no SQL, and never a text that still holds a token.
C21_MissingKeyIsError ==
  (calls >= 1 /\ op = "NamedQuery" /\ ~AllNamesKnown(tmpl, data))
    => (Refused /\ ~HasToken(res.sql))

\* a named query on the empty mapping: the template comes back unchanged,
\* token included, without an error
C21_Witness ==
  /\ calls = 1 /\ op = "NamedQuery" /\ data = <<>>
  /\ ~AllNamesKnown(tmpl, data)
  /\ res.err = "nil" /\ res.sql = tmpl /\ HasToken(res.sql)

\* C21 for the mappings with at least one key
C21_NonEmptyMapping ==
  (calls >= 1 /\ op = "NamedQuery" /\ DOMAIN data # {} /\ ~AllNamesKnown(tmpl, data))
    => (Refused /\ ~HasToken(res.sql))

\* a named query on a mapping with keys that lacks a referenced name
C21_MissingWitness ==
  /\ calls = 1 /\ op = "NamedQuery" /\ DOMAIN data # {}
  /\ ~AllNamesKnown(tmpl, data) /\ Refused

\* the dialect string, trimmed and lower-cased
Canonical(s) == Str(ToLower(TrimSpace(s)))

\* the dialect the enumeration of aliases gives a dialect string, NoBuilder
\* for a string outside the enumeration
ExpectedDialect(s) ==
  CASE Canonical(s) \in { "mysql", "mariadb" } -> DialectMySQL
    [] Canonical(s) \in { "postgres", "postgresql", "supabase", "cockroachdb" } ->
         DialectPostgres
    [] Canonical(s) \in { "sqlite", "sqlite3" } -> DialectSQLite
    [] OTHER -> NoBuilder

\* New or FromDB on the dialect string alias built the builder the
\* enumeration names, or returned errUnsupportedDialect and no builder
ConstructedAsEnumerated ==
  IF ExpectedDialect(alias) # NoBuilder
  THEN res.err = "nil" /\ dialect = ExpectedDialect(alias)
  ELSE res.err = "errUnsupportedDialect: " \o Str(alias) /\ dialect = NoBuilder

\* C25: New(d), and FromDB on a provider of d, succeed exactly when d trimmed
\* and lower-cased is one of mysql, mariadb (MySQL), postgres, postgresql,
\* supabase, cockroachdb (PostgreSQL), sqlite, sqlite3 (SQLite); every other
\* string returns errUnsupportedDialect and no builder; FromDB(nil) returns
\* errNilDialectProvider and no builder.
C25_ClosedEnumeration ==
  /\ (calls >= 1 /\ op \in { "New", "FromDB" }) => ConstructedAsEnumerated
  /\ (calls >= 1 /\ op = "FromDB(nil)") =>
       (res.err = "errNilDialectProvider" /\ dialect = NoBuilder)

\* New on the empty dialect string: a MySQL builder and no error
C25_Witness ==
  /\ calls = 1 /\ op = "New" /\ TrimSpace(alias) = <<>>
  /\ res.err = "nil" /\ dialect = DialectMySQL

\* C25 for the dialect strings that are not blank
C25_NonBlankNames ==
  /\ (calls >= 1 /\ op \in { "New", "FromDB" } /\ TrimSpace(alias) # <<>>)
       => ConstructedAsEnumerated
  /\ (calls >= 1 /\ op = "FromDB(nil)") =>
       (res.err = "errNilDialectProvider" /\ dialect = NoBuilder)

\* New on an alias in mixed case built a PostgreSQL builder
C25_AliasWitness ==
  /\ calls = 1 /\ op = "New" /\ alias # ToLower(alias)
  /\ res.err = "nil" /\ dialect = DialectPostgres

\* New on a string outside the enumeration returned the error and no builder
C25_UnknownWitness ==
  /\ calls = 1 /\ op = "New" /\ TrimSpace(alias) # <<>>
  /\ res.err # "nil" /\ dialect = NoBuilder

\* C25, the last part: no call changes the dialect of a constructed builder
C25_DialectImmutable == [][(dialect \in Dialects) => (dialect' = dialect)]_vars

\* a second call was made on a constructed builder
C25_ImmutableWitness == calls = 1 /\ op = "BuildUpdate" /\ dialect = DialectSQLite

\* the entry points of the builder that return (sql, args, error)
EntryPoints ==
  { "BuildSelect", "BuildUpdate", "BuildDelete", "NamedQuery" }
    \cup InsertOps \cup WithDialectForms

\* C22: whenever BuildSelect, BuildUpdate, BuildDelete, a builder of the
\* INSERT family, BuildUpsert, NamedQuery or one of the *WithDialect forms
\* returns an error, the returned SQL is empty and the returned arguments are
\* nil.
C22_DetectBeforeEmit ==
  (calls >= 1 /\ op \in EntryPoints /\ res.err # "nil")
    => (res.sql = <<>> /\ res.args = <<>>)

\* BuildUpdate refused a where map with an unsupported operator
C22_Witness ==
  /\ calls = 1 /\ op = "BuildUpdate" /\ << "a", " ", "~" >> \in DOMAIN where
  /\ Refused

\* a *WithDialect form refused a dialect string outside the enumeration
C22_DialectWitness ==
  /\ calls = 1 /\ op \in WithDialectForms
  /\ res.err = "errUnsupportedDialect: " \o Str(alias) /\ Refused

\* a *WithDialect form on an alias of PostgreSQL refused its inputs
C22_FormWitness ==
  /\ calls = 1 /\ op = "BuildReplaceInsertWithDialect" /\ rows # <<>>
  /\ res.err = unsupportedFeature(DialectPostgres, "BuildReplaceInsert") /\ Refused



\* the builders that take a where map
WhereBuilders == { "BuildSelect", "BuildUpdate", "BuildDelete" }

\* the chunk that opens the list of operator token t
ListOpener(t) == IF t = << "i", "n" >> THEN " IN (" ELSE " NOT IN ("

\* the keys of where map w that resolve to IN or NOT IN: "f in", "f not in",
\* and a bare field key with a sequence value
ListKeys(w) ==
  { k \in FieldKeys(w) :
      /\ splitKey(k, w[k]).err = "nil"
      /\ OperatorToken(w, k) \in { << "i", "n" >>, << "n", "o", "t", " ", "i", "n" >> }
      /\ w[k].kind = "slice" }

\* the keys of w that resolve to IN or NOT IN with an empty sequence
EmptyListKeys(w) == { k \in ListKeys(w) : w[k].val = <<>> }

\* the text holds IN () or NOT IN ()
HasEmptyList(sql) ==
  \E i \in 1..(Len(sql) - 1) : sql[i] \in { " IN (", " NOT IN (" } /\ sql[i + 1] = ")"

\* the text sql renders key k of w as f IN (?,...,?), or f NOT IN (?,...,?),
\* with one placeholder per element, and args ends with the elements in order
RendersList(w, k, sql, args) ==
  LET f == splitKey(k, w[k]).field
      n == Len(w[k].val)
      i == IndexOf(sql, ListOpener(OperatorToken(w, k)))
  IN  /\ i > Len(f)
      /\ SubSeq(sql, i - Len(f), i - 1) = f
      /\ Len(sql) >= i + 2 * n
      /\ SubSeq(sql, i + 1, i + 2 * n) = QuestionMarks(n) \o << ")" >>
      /\ LastN(args, n) = [j \in 1..n |-> IntV(w[k].val[j])]

\* the list keys of w are validated and rendered: an empty sequence is
\* refused, with the error of the empty list when the key is the only one,
\* and the non-empty sequence of an only key is rendered in full
ListsValidated(w) ==
  /\ EmptyListKeys(w) # {} => Refused
  /\ \A k \in ListKeys(w) :
       DOMAIN w = { k } =>
         IF w[k].val = <<>>
         THEN res.err = "errEmptySliceCondition:" \o Str(OperatorToken(w, k))
         ELSE res.err = "nil" /\ RendersList(w, k, Unbind(res.sql), res.args)

\* C23: BuildSelect, BuildUpdate and BuildDelete refuse with the "must
\* contain at least one element" error every where map with a key that
\* resolves to IN or NOT IN ("f in", "f not in", or a bare field key with a
\* sequence value) and an empty sequence; no returned SQL holds IN (); a
\* list of n >= 1 elements renders f IN (?,...,?) with n placeholders and
\* the n elements as arguments in order.
C23_EmptyListIsError ==
  (calls >= 1 /\ op \in WhereBuilders)
    => (ListsValidated(where) /\ ~HasEmptyList(res.sql))

\* a SELECT with the condition node In of an empty list: the text holds
\* a IN () and no error is returned
C23_Witness ==
  /\ calls = 1 /\ op = "BuildSelect" /\ res.err = "nil"
  /\ KeyCustom \in DOMAIN where /\ where[KeyCustom].kind = "cmp"
  /\ where[KeyCustom].val.type = "In"
  /\ HasEmptyList(res.sql)

\* a statement built from a where map whose bare key a has an empty
\* sequence: the key "a in" replaced it and no error is returned
C23_ReplacedWitness ==
  /\ calls = 1 /\ op \in WhereBuilders /\ res.err = "nil"
  /\ << "a" >> \in EmptyListKeys(where)
  /\ ~HasEmptyList(res.sql)

\* two keys of w resolve to the same field and the same operator
SameFieldAndOperator(w) ==
  \E k1, k2 \in FieldKeys(w) :
    /\ k1 # k2
    /\ splitKey(k1, w[k1]).err = "nil" /\ splitKey(k2, w[k2]).err = "nil"
    /\ splitKey(k1, w[k1]).field = splitKey(k2, w[k2]).field
    /\ OperatorToken(w, k1) = OperatorToken(w, k2)

\* C23 for the where maps whose keys resolve to distinct (field, operator)
\* pairs and whose condition nodes are not lists
C23_ListKeysValidated ==
  (calls >= 1 /\ op \in WhereBuilders /\ ~SameFieldAndOperator(where)
     /\ (KeyCustom \in DOMAIN where => where[KeyCustom].val.type # "In"))
    => (ListsValidated(where) /\ ~HasEmptyList(res.sql))

\* a bare field key with an empty sequence is refused
C23_BareWitness ==
  /\ calls = 1 /\ op = "BuildDelete" /\ DOMAIN where = { << "a" >> }
  /\ where[<< "a" >>] = SliceV(<<>>)
  /\ res.err = "errEmptySliceCondition:in" /\ Refused

\* a PostgreSQL NOT IN of two elements
C23_NotInWitness ==
  /\ calls = 1 /\ op = "BuildSelect" /\ dialect = DialectPostgres
  /\ res.err = "nil" /\ Cardinality(DOMAIN where) = 1
  /\ IndexOf(res.sql, " NOT IN (") > 0
  /\ res.args = << IntV(3), IntV(4) >>

\* every comma-separated term of the string s matches the grammar of a term:
\* an identifier, plain or backtick-quoted, optionally dotted, and for
\* "_orderby" an optional trailing ASC or DESC
AllTermsMatch(key, s) ==
  \A i \in 1..Len(Split(TrimSpace(s), ",")) :
    LET term == TrimSpace(Split(TrimSpace(s), ",")[i])
    IN  IF key = KeyOrderBy THEN orderByPattern(term) ELSE groupByPattern(term)

\* the chunk that opens the clause of a directive, and its two errors
ClauseChunk(key)  == IF key = KeyOrderBy THEN " ORDER BY " ELSE " GROUP BY "
InvalidError(key) ==
  IF key = KeyOrderBy THEN "errOrderByValueInvalid" ELSE "errGroupByValueInvalid"
TypeError(key) ==
  IF key = KeyOrderBy THEN "errOrderByValueType" ELSE "errGroupByValueType"

\* "_orderby" is read before "_groupby": the value of key is reached
Reached(key) ==
  \/ key = KeyOrderBy
  \/ KeyOrderBy \notin DOMAIN where
  \/ parseOrderByClause(where[KeyOrderBy]).err = "nil"

\* BuildSelect treated the value of the directive key as the grammar asks;
\* a blank string counts as a string outside the grammar iff strict
ClauseValidated(key, strict) ==
  LET v == where[key]
  IN  /\ v.kind = "str" /\ ~AllTermsMatch(key, v.val)
           /\ (strict \/ TrimSpace(v.val) # <<>>) /\ Reached(key)
         => (res.err = InvalidError(key) /\ Refused)
      /\ v.kind = "str" /\ TrimSpace(v.val) = <<>> /\ ~strict
         => (res.err # InvalidError(key) /\ IndexOf(res.sql, ClauseChunk(key)) = 0)
      /\ v.kind \notin { "str", "raw" } /\ Reached(key)
         => (res.err = TypeError(key) /\ Refused)
      /\ v.kind = "raw" => res.err \notin { InvalidError(key), TypeError(key) }
      /\ IndexOf(res.sql, ClauseChunk(key)) > 0
         => \/ v.kind = "raw"
            \/ v.kind = "str" /\ AllTermsMatch(key, v.val)

\* C24: for a plain-string "_orderby" or "_groupby" BuildSelect emits the
\* clause only if every comma-separated term matches the grammar; every
\* other string is refused with errOrderByValueInvalid or
\* errGroupByValueInvalid and no SQL; a Raw value is not validated; a value
\* of any other type is refused with the type error.
C24_ClauseValidation ==
  (calls >= 1 /\ op = "BuildSelect")
    => \A key \in { KeyOrderBy, KeyGroupBy } \cap DOMAIN where :
         ClauseValidated(key, TRUE)

\* C24, with a blank string taken as no directive: it gives no clause and no
\* error
C24_BlankIsAbsent ==
  (calls >= 1 /\ op = "BuildSelect")
    => \A key \in { KeyOrderBy, KeyGroupBy } \cap DOMAIN where :
         ClauseValidated(key, FALSE)

\* a SELECT refused for an "_orderby" string with a term outside the grammar
C24_Witness ==
  /\ calls = 1 /\ op = "BuildSelect" /\ KeyOrderBy \in DOMAIN where
  /\ where[KeyOrderBy] = StrV(<< "a", ";", "b" >>)
  /\ res.err = "errOrderByValueInvalid" /\ Refused

\* a SELECT with a blank "_orderby" string: no clause, no error
C24_BlankWitness ==
  /\ calls = 1 /\ op = "BuildSelect" /\ KeyOrderBy \in DOMAIN where
  /\ where[KeyOrderBy] = StrV(<< " " >>)
  /\ res.err = "nil" /\ IndexOf(res.sql, " ORDER BY ") = 0

\* a SELECT grouped by two dotted terms
C24_GroupWitness ==
  /\ calls = 1 /\ op = "BuildSelect" /\ KeyGroupBy \in DOMAIN where
  /\ where[KeyGroupBy] = StrV(<< "t", ".", "c", ",", "d" >>)
  /\ res.err = "nil" /\ IndexOf(res.sql, " GROUP BY ") > 0

\* a SELECT refused for a "_groupby" string with a direction
C24_GroupRefusedWitness ==
  /\ calls = 1 /\ op = "BuildSelect" /\ KeyGroupBy \in DOMAIN where
  /\ where[KeyGroupBy] = StrV(<< "c", " ", "d", "e", "s", "c" >>)
  /\ res.err = "errGroupByValueInvalid" /\ Refused

\* a SELECT ordered by a Raw value
C24_RawWitness ==
  /\ calls = 1 /\ op = "BuildSelect" /\ KeyOrderBy \in DOMAIN where
  /\ where[KeyOrderBy].kind = "raw"
  /\ res.err = "nil" /\ IndexOf(res.sql, " ORDER BY ") > 0

\* a SELECT refused for an integer given as "_groupby"
C24_TypeWitness ==
  /\ calls = 1 /\ op = "BuildSelect" /\ KeyGroupBy \in DOMAIN where
  /\ where[KeyGroupBy].kind = "int"
  /\ res.err = "errGroupByValueType" /\ Refused

\* the keys of w that begin with "_or" and are neither "_or" nor a directive
PrefixedKeys(w) ==
  { k \in DOMAIN w : HasPrefix(k, KeyOr) /\ k # KeyOr /\ k \notin defaultIgnoreKeys }

\* the text holds the chunks t in a row
HasChunks(sql, t) ==
  \E i \in 1..(Len(sql) - Len(t) + 1) : SubSeq(sql, i, i + Len(t) - 1) = t

\* C28: a key that begins with "_or" without being "_or" ("_origin",
\* "_order_id") is compiled as the condition of a field: the call does not
\* return the error of the value type of "_or", and the statement compares
\* the field with a placeholder.
C28_OnlyExactOr ==
  (calls >= 1 /\ op \in WhereBuilders /\ PrefixedKeys(where) # {})
    => /\ res.err # "errOrValueType"
       /\ res.err = "nil"
            => \A k \in PrefixedKeys(where) : HasChunks(Unbind(res.sql), k \o << "=", "?" >>)

\* a statement refused for the key "_origin" with the error of "_or"
C28_Witness ==
  /\ calls = 1 /\ op \in WhereBuilders
  /\ DOMAIN where = { << "_", "o", "r", "i", "g", "i", "n" >> }
  /\ where[<< "_", "o", "r", "i", "g", "i", "n" >>] = IntV(1)
  /\ res.err = "errOrValueType" /\ Refused

\* the key "_or" itself with a value that is no sequence of where maps is
\* refused with the error of the value type of "_or"
C28_ExactOr ==
  (calls >= 1 /\ op \in WhereBuilders /\ KeyOr \in DOMAIN where
     /\ where[KeyOr].kind # "maps" /\ DOMAIN where = { KeyOr })
    => (res.err = "errOrValueType" /\ Refused)

\* a statement refused for "_or" with an integer value
C28_ExactWitness ==
  /\ calls = 1 /\ op = "BuildSelect" /\ DOMAIN where = { KeyOr }
  /\ where[KeyOr] = IntV(1) /\ res.err = "errOrValueType"

\* the chunks that a rendered predicate holds exactly once
PredicateChunks ==
  { "=", "!=", ">", ">=", "<", "<=", " LIKE ", " NOT LIKE ", " IN (", " NOT IN (",
    " BETWEEN ", " NOT BETWEEN ", "(1=0)", NullTypeString(IsNull), NullTypeString(IsNotNull) }

\* the number of predicates of the text
PredicateCount(sql) == Len(SelectSeq(sql, LAMBDA c : c \in PredicateChunks))

\* the operator under which key k of w is collected: a NullType value is
\* collected under "null" whatever the operator of its key
EffectiveOperator(w, k) ==
  IF w[k].kind = "null" THEN << "n", "u", "l", "l" >> ELSE OperatorToken(w, k)

\* two keys of w are collected under the same field and the same operator
SamePair(w) ==
  \E k1, k2 \in DOMAIN w :
    /\ k1 # k2
    /\ splitKey(k1, w[k1]).field = splitKey(k2, w[k2]).field
    /\ EffectiveOperator(w, k1) = EffectiveOperator(w, k2)

\* every key of w names a field, none is blank
OnlyFieldKeys(w) ==
  /\ w # <<>> /\ DOMAIN w = FieldKeys(w)
  /\ \A k \in DOMAIN w : splitKey(k, w[k]).err = "nil"

\* C29: on a successful build every key of the where map that names a field
\* with a supported operator gives exactly one predicate of the statement;
\* two keys that resolve to the same field and operator ("a" and "a =", "a"
\* and " a"), and a NullType value given with another operator, overwrite or
\* omit no condition.
C29_NoFilterDropped ==
  (calls >= 1 /\ op \in { "BuildSelect", "BuildDelete" } /\ res.err = "nil"
     /\ OnlyFieldKeys(where))
    => PredicateCount(res.sql) = Cardinality(DOMAIN where)

\* a SELECT on {"a": 1, "a =": 2}: one predicate and the argument 2 only
C29_Witness ==
  /\ calls = 1 /\ op = "BuildSelect" /\ res.err = "nil"
  /\ DOMAIN where = { << "a" >>, << "a", " ", "=" >> }
  /\ where[<< "a" >>] = IntV(1)
  /\ PredicateCount(res.sql) = 1
  /\ res.args = << IntV(2) >>

\* a DELETE on {"a": IsNull, "a !=": IsNotNull}: one predicate
C29_NullWitness ==
  /\ calls = 1 /\ op = "BuildDelete" /\ res.err = "nil"
  /\ DOMAIN where = { << "a" >>, << "a", " ", "!", "=" >> }
  /\ where[<< "a" >>] = NullV(IsNull)
  /\ PredicateCount(res.sql) = 1

\* C29 for the where maps whose keys are collected under distinct (field,
\* operator) pairs, the operator "null" being given a NullType value
C29_DistinctPairs ==
  (calls >= 1 /\ op \in { "BuildSelect", "BuildDelete" } /\ res.err = "nil"
     /\ OnlyFieldKeys(where) /\ ~SamePair(where)
     /\ \A k \in DOMAIN where :
          OperatorToken(where, k) = << "n", "u", "l", "l" >> => where[k].kind = "null")
    => PredicateCount(res.sql) = Cardinality(DOMAIN where)

\* a SELECT on two keys of the field a with distinct operators
C29_DistinctWitness ==
  /\ calls = 1 /\ op = "BuildSelect" /\ res.err = "nil"
  /\ DOMAIN where = { << "a" >>, << "a", " ", ">" >> }
  /\ PredicateCount(res.sql) = 2
  /\ res.args = << IntV(1), IntV(2) >>

\* the directives that only a SELECT reads
SelectOnlyKeys == { KeyOrderBy, KeyGroupBy, KeyHaving, KeyLockMode }

\* map w without the directives that only a SELECT reads
WithoutSelectOnly(w) == [k \in (DOMAIN w) \ SelectOnlyKeys |-> w[k]]

\* C30: BuildUpdate and BuildDelete return what they return on the where map
\* without "_orderby", "_groupby", "_having" and "_lockMode": these
\* directives, malformed or unsupported for the dialect as they may be, are
\* neither validated nor rendered.
C30_SelectOnlyDirectives ==
  /\ (calls >= 1 /\ op = "BuildUpdate")
       => res \in { BuildUpdate(dialect, Table, WithoutSelectOnly(where), update, o) :
                      o \in Orders }
  /\ (calls >= 1 /\ op = "BuildDelete")
       => res \in { BuildDelete(dialect, Table, WithoutSelectOnly(where), o) :
                      o \in Orders }

\* an UPDATE built from a where map with an "_orderby" outside the grammar
C30_Witness ==
  /\ calls = 1 /\ op = "BuildUpdate" /\ res.err = "nil"
  /\ KeyOrderBy \in DOMAIN where
  /\ where[KeyOrderBy] = StrV(<< "a", ";", "b" >>)
  /\ IndexOf(res.sql, " ORDER BY ") = 0
  /\ Len(res.args) = Len(UpdateArgs(update)) + 1

\* a SQLite DELETE built from a where map with "_lockMode" and "_having"
C30_LockWitness ==
  /\ calls = 1 /\ op = "BuildDelete" /\ dialect = DialectSQLite /\ res.err = "nil"
  /\ KeyLockMode \in DOMAIN where /\ KeyHaving \in DOMAIN where
  /\ IndexOf(res.sql, " HAVING ") = 0

\* the value holds no value of an unsupported type and no map whose keys
\* are not strings
RECURSIVE JsonSupported(_)
JsonSupported(v) ==
  CASE v.kind \in { "int", "str", "bool", "nil" } -> TRUE
    [] v.kind = "list" -> \A i \in 1..Len(v.val) : JsonSupported(v.val[i])
    [] v.kind = "map"  -> \A k \in DOMAIN v.val : JsonSupported(v.val[k])
    [] OTHER -> FALSE

\* the expression and the arguments of a supported value: ? for a number or
\* a string, a literal for a boolean and for nil, JSON_ARRAY of the elements,
\* JSON_OBJECT of the keys in sorted order, each key a placeholder before
\* its value
RECURSIVE JsonExpected(_)
JsonExpected(v) ==
  CASE v.kind \in { "int", "str" } -> [text |-> << "?" >>, args |-> << v >>]
    [] v.kind = "bool" ->
         [text |-> << IF v.val THEN "true" ELSE "false" >>, args |-> <<>>]
    [] v.kind = "nil" -> [text |-> << "null" >>, args |-> <<>>]
    [] v.kind = "list" ->
         [text |-> << "JSON_ARRAY(" >>
                   \o Join([i \in 1..Len(v.val) |-> JsonExpected(v.val[i]).text], << "," >>)
                   \o << ")" >>,
          args |-> Flatten([i \in 1..Len(v.val) |-> JsonExpected(v.val[i]).args])]
    [] v.kind = "map" ->
         LET keys == SetToSeq(DOMAIN v.val)
         IN  [text |-> << "JSON_OBJECT(" >>
                       \o Join([i \in 1..Len(keys) |->
                                  << "?", "," >> \o JsonExpected(v.val[keys[i]]).text],
                               << "," >>)
                       \o << ")" >>,
              args |-> Flatten([i \in 1..Len(keys) |->
                                  << StrV(keys[i]) >> \o JsonExpected(v.val[keys[i]]).args])]

\* the pairs are paths that are strings and not blank, each with a value
WellFormedPairs(ps) ==
  /\ Len(ps) > 0 /\ Len(ps) % 2 = 0
  /\ \A k \in 1..(Len(ps) \div 2) :
       ps[2 * k - 1].kind = "str" /\ TrimSpace(ps[2 * k - 1].val) # <<>>

\* the values of the pairs
PairValues(ps) == [k \in 1..(Len(ps) \div 2) |-> ps[2 * k]]

\* the call of JSON_SET on the field with the pairs, and its arguments
ExpectedJsonSet(f, ps) ==
  [text |-> f \o << "=", "JSON_SET(" >> \o f
            \o Flatten([k \in 1..(Len(ps) \div 2) |->
                          << ",", "?", "," >> \o JsonExpected(ps[2 * k]).text])
            \o << ")" >>,
   args |-> Flatten([k \in 1..(Len(ps) \div 2) |->
                       << StrV(TrimSpace(ps[2 * k - 1].val)) >>
                       \o JsonExpected(ps[2 * k]).args])]

\* C27: the expression generated for a nested value of numbers, strings,
\* booleans, nil, sequences and string-keyed mappings has as many
\* placeholders as arguments, the keys of a mapping in sorted order with the
\* argument of each key right before the arguments of its value, and is the
\* same whatever the iteration order of the mappings; a value of an
\* unsupported type or a mapping whose keys are not strings makes the
\* enclosing build return an error and no SQL.
C27_JsonSerialization ==
  (calls >= 1 /\ op = "JsonSet" /\ WellFormedPairs(pairs))
    => IF \A k \in 1..(Len(pairs) \div 2) : JsonSupported(pairs[2 * k])
       THEN /\ res.err = "nil"
            /\ HasChunks(Unbind(res.sql), ExpectedJsonSet(JsonField, pairs).text)
            /\ res.args = ExpectedJsonSet(JsonField, pairs).args \o << IntV(1) >>
            /\ PlaceholderCount(dialect, res.sql) = Len(res.args)
       ELSE /\ Refused
            /\ res.err \in { "errUnsupportedJSONMapKey", "errUnsupportedJSONType: struct" }

\* an UPDATE that sets a mapping whose keys b and a hold a sequence and a
\* mapping: the arguments follow the keys in sorted order
C27_Witness ==
  /\ calls = 1 /\ op = "JsonSet" /\ res.err = "nil" /\ Len(pairs) = 2
  /\ pairs[2].kind = "map" /\ DOMAIN pairs[2].val = { << "a" >>, << "b" >> }
  /\ pairs[2].val[<< "a" >>].kind = "map"
  /\ res.args = << StrV(JsonPath), StrV(<< "a" >>), StrV(<< "c" >>), StrV(<< "s" >>),
                   StrV(<< "d" >>), StrV(<< "b" >>), IntV(1), StrV(<< "y" >>), IntV(3),
                   StrV(<< "z" >>), IntV(2), IntV(1) >>

\* an UPDATE refused for a mapping with integer keys inside a sequence
C27_MapKeyWitness ==
  /\ calls = 1 /\ op = "JsonSet" /\ Len(pairs) = 2 /\ pairs[2].kind = "list"
  /\ res.err = "errUnsupportedJSONMapKey" /\ Refused

\* an UPDATE refused for a value of an unsupported type inside a mapping
C27_TypeWitness ==
  /\ calls = 1 /\ op = "JsonSet" /\ Len(pairs) = 2 /\ pairs[2].kind = "map"
  /\ res.err = "errUnsupportedJSONType: struct" /\ Refused

\* the results the call of thread t can return when it runs alone on the
\* inputs that were given
ResultsAlone(t) ==
  { IF threads[t].op = "BuildSelect"
    THEN BuildSelect(dialect, Table, where, selectField, o)
    ELSE IF threads[t].op = "BuildUpdate"
    THEN BuildUpdate(dialect, Table, where, update, o)
    ELSE BuildDelete(dialect, Table, where, o) : o \in Orders }

\* the cells of the select-field slice that some goroutine has stored in
CellsWritten == UNION { threads[t].wrote : t \in DOMAIN threads }

\* C26: when goroutines call builder methods concurrently on one builder with
\* the same where map and the same select-field slice, no step of a call
\* writes a caller-supplied input, and every call that has returned gives the
\* result it gives when it runs alone.
C26_NoInterference ==
  family = "concurrent" =>
    /\ CellsWritten = {}
    /\ \A t \in Threads :
         threads[t].pc = "done" => threads[t].res \in ResultsAlone(t)

\* two calls of BuildSelect are in progress on the same slice, and one has
\* stored in a cell that the other reads
C26_Witness ==
  /\ family = "concurrent"
  /\ \E t, u \in Threads :
       /\ t # u
       /\ threads[t].op = "BuildSelect" /\ threads[u].op = "BuildSelect"
       /\ threads[t].wrote # {}
       /\ threads[u].pc \in { "quote", "join" }

\* C26, the part that holds: the builder, the where map and the update map
\* are never written, a call of BuildUpdate or BuildDelete writes nothing,
\* and a call that returns without the report of a data race gives the
\* result it gives alone, the stores of buildSelect leaving every cell as
\* it was.
C26_ResultsUnlessRaceReported ==
  family = "concurrent" =>
    \A t \in Threads :
      /\ threads[t].op \in { "BuildUpdate", "BuildDelete" } => threads[t].wrote = {}
      /\ (threads[t].pc = "done" /\ threads[t].res # RaceReport)
           => threads[t].res \in ResultsAlone(t)

\* both calls of BuildSelect have returned a statement after storing in the
\* cells of the shared slice
C26_BothReturnWitness ==
  /\ family = "concurrent"
  /\ \A t \in Threads :
       /\ threads[t].op = "BuildSelect" /\ threads[t].pc = "done"
       /\ threads[t].wrote # {} /\ threads[t].res.err = "nil"

\* a call of BuildSelect ended by the report of the data race on the slice
C26_RaceReportWitness ==
  /\ family = "concurrent"
  /\ \E t \in Threads : threads[t].pc = "done" /\ threads[t].res = RaceReport

\* the inputs of the concurrent calls are left as they were given
C26_InputsKept ==
  [][(family = "concurrent")
       => (dialect' = dialect /\ where' = where /\ update' = update
           /\ selectField' = selectField)]_vars
====
